---- MODULE Spec2Model ----
(***************************************************************************)
(* Model of i3py's method customization engine                             *)
(* (src/i3py/core/composition.py): the MethodComposer (an ordered list of  *)
(* identified methods), the customize declaration, and                     *)
(* SupportMethodCustomization.modify_behavior / copy_custom_behaviors.     *)
(*                                                                         *)
(* with the unit registry of src/i3py/core/unit.py and the channel         *)
(* descriptor of src/i3py/core/base_channel.py.                            *)
(*                                                                         *)
(* The specifications:                                                     *)
(*   SpecComposer : MethodComposer objects driven directly through their   *)
(*                  methods (prepend, append, add_after, add_before,       *)
(*                  replace, remove, reset, clone);                        *)
(*   Spec         : a customized object A, driven through modify_behavior  *)
(*                  and customize.customize, and a rebuilt object B onto   *)
(*                  which copy_custom_behaviors replays A's customizations.*)
(*   SpecOwner    : the object A alone, constructed and customized;        *)
(*   SpecShape    : composers created through MetaMethodComposer.__call__, *)
(*                  grown and invoked;                                     *)
(*   SpecThreads  : two callers inside MetaMethodComposer.__call__;        *)
(*   SpecSignature: normalize_signature applied to two signatures;         *)
(*   SpecUnit     : the calls of unit.py on the registry of the process;   *)
(*   SpecChannel  : accesses to channel descriptors on instances;          *)
(*   SpecContainer: lookups of channels in a ChannelContainer.             *)
(***************************************************************************)
EXTENDS Integers, Sequences, FiniteSets, TLC

VARIABLES
    lists,    \* SpecComposer: the Python list objects, by address
    comp,     \* SpecComposer: composer handle -> its _names/_methods lists
    ref,      \* SpecComposer: reference ordered list of <<id, method>> pairs
    err,      \* the error raised by the last call, NoError when it returned
    owner,    \* Spec: object -> its method, its _customs and _old_ids entries
    start,    \* Spec: object -> the object as its constructor left it
    phase,    \* Spec: "build", "custom" (A is customized), "rebuild", "copied"
    calls,    \* Spec: number of customization calls made on A
    clean,    \* Spec: every customization call made on A returned normally
    sigs,     \* SpecShape: MetaMethodComposer.sigs, key -> generated class
    classes,  \* SpecShape: the generated composer classes, in creation order
    objs,     \* SpecShape: the composers created, in creation order
    out,      \* SpecShape: the last operation and its outcome
    frame,    \* SpecThreads: caller -> its position in, and its local
              \* variables of, MetaMethodComposer.__call__
    given,          \* SpecSignature: two signatures and the alias
    normalized,     \* SpecSignature: what normalize_signature returned
    UNIT_REGISTRY,  \* SpecUnit: the global of unit.py
    UNIT_RETURN,    \* SpecUnit: the global of unit.py
    UNIT_SUPPORT,   \* SpecUnit: whether pint could be imported
    made,           \* SpecUnit: number of UnitRegistry objects created
    unit_out,       \* SpecUnit: the last call of unit.py and its outcome
    channel_container_instances,
                    \* SpecChannel: instance -> name -> its container
    containers,     \* SpecChannel: the containers created, in order
    channel_out,    \* SpecChannel: the last access and its outcome
    cc,             \* SpecContainer: a ChannelContainer, its _aliases and
                    \* its _channels
    item_out        \* SpecContainer: the last lookup and its outcome

vars == <<lists, comp, ref, err, owner, start, phase, calls, clean,
          sigs, classes, objs, out, frame, given, normalized,
          UNIT_REGISTRY, UNIT_RETURN, UNIT_SUPPORT, made, unit_out,
          channel_container_instances, containers, channel_out,
          cc, item_out>>

composerVars == <<lists, comp, ref>>
ownerVars == <<owner, start, phase, calls, clean>>
shapeVars == <<sigs, classes, objs, out, frame>>
signatureVars == <<given, normalized>>
unitVars == <<UNIT_REGISTRY, UNIT_RETURN, UNIT_SUPPORT, made, unit_out>>
containerVars == <<cc, item_out>>
channelVars == <<channel_container_instances, containers, channel_out,
                 containerVars>>
deviceVars == <<unitVars, channelVars>>

-----------------------------------------------------------------------------
(* Bounds and value sets                                                   *)

\* Longest list of methods a composer is driven to.
MaxLen == 3

\* Most customization calls made on an object.
MaxCalls == 2

\* Method ids; "old" is the default id of the original method.
Ids == {"old", "a", "b"}

\* Method ids of customized objects: "x" and "y" are the ids of the methods
\* that constructors add, "w" is the id of a customization.
OwnerIds == {"old", "x", "y", "w"}
BuildIds == {"x", "y"}

\* Functions used as composer methods in SpecComposer.
Steps == {"f", "g"}

\* Functions given to modify_behavior: two that the validation hook of the
\* owner accepts and one whose signature does not match.
Funcs == {"f", "g"}
BadFuncs == {"bad"}

None == "None"

-----------------------------------------------------------------------------
(* Python lists, 0-based                                                   *)

In(x, s) == \E k \in 1..Len(s) : s[k] = x

\* list.index(x); only evaluated when x is in s (otherwise ValueError)
PyIndex(s, x) == CHOOSE i \in 0..(Len(s) - 1) :
                    s[i + 1] = x /\ \A j \in 0..(i - 1) : s[j + 1] # x

\* list.insert(i, x) for i >= 0
PyInsert(s, i, x) ==
    LET k == IF i > Len(s) THEN Len(s) ELSE i
    IN SubSeq(s, 1, k) \o <<x>> \o SubSeq(s, k + 1, Len(s))

\* del s[i]
PyDel(s, i) == SubSeq(s, 1, i) \o SubSeq(s, i + 2, Len(s))

\* s[i] = x
PySet(s, i, x) == [s EXCEPT ![i + 1] = x]

-----------------------------------------------------------------------------
(* MethodComposer: a composer value is [names, methods]; every method      *)
(* returns the composer after the call and the error raised ("none" when   *)
(* the call returns normally).                                             *)

NoError == "none"
DuplicateIds == "ValueError: duplicate ids"
NotInList == "ValueError: not in list"

Returned(c) == [c |-> c, err |-> NoError]
Raised(c, e) == [c |-> c, err |-> e]

MethodComposer(func, func_id) == [names |-> <<func_id>>, methods |-> <<func>>]

\* a duplicate check that looks at the first id only (mutant)
check_duplicates_first(c, name) == Len(c.names) > 0 /\ c.names[1] = name

check_duplicates(c, name) == In(name, c.names)

\* prepend without the duplicate check (mutant)
prepend_unchecked(c, name, method) ==
    Returned([names |-> PyInsert(c.names, 0, name),
              methods |-> PyInsert(c.methods, 0, method)])

prepend(c, name, method) ==
    IF check_duplicates(c, name) THEN Raised(c, DuplicateIds)
    ELSE Returned([names |-> PyInsert(c.names, 0, name),
                   methods |-> PyInsert(c.methods, 0, method)])

append(c, name, method) ==
    IF check_duplicates(c, name) THEN Raised(c, DuplicateIds)
    ELSE Returned([names |-> Append(c.names, name),
                   methods |-> Append(c.methods, method)])

\* add_after that inserts at the anchor's index (mutant)
add_after_at_anchor(c, anchor, name, method) ==
    IF In(name, c.names) THEN Raised(c, DuplicateIds)
    ELSE IF ~In(anchor, c.names) THEN Raised(c, NotInList)
    ELSE LET i == PyIndex(c.names, anchor)
         IN Returned([names |-> PyInsert(c.names, i, name),
                      methods |-> PyInsert(c.methods, i, method)])

add_after(c, anchor, name, method) ==
    IF check_duplicates(c, name) THEN Raised(c, DuplicateIds)
    ELSE IF ~In(anchor, c.names) THEN Raised(c, NotInList)
    ELSE LET i == PyIndex(c.names, anchor)
         IN Returned([names |-> PyInsert(c.names, i + 1, name),
                      methods |-> PyInsert(c.methods, i + 1, method)])

add_before(c, anchor, name, method) ==
    IF check_duplicates(c, name) THEN Raised(c, DuplicateIds)
    ELSE IF ~In(anchor, c.names) THEN Raised(c, NotInList)
    ELSE LET i == PyIndex(c.names, anchor)
         IN Returned([names |-> PyInsert(c.names, i, name),
                      methods |-> PyInsert(c.methods, i, method)])

\* replace that takes the method out and appends the new one (mutant)
replace_at_end(c, name, method) ==
    IF ~In(name, c.names) THEN Raised(c, NotInList)
    ELSE LET i == PyIndex(c.names, name)
         IN Returned([names |-> Append(PyDel(c.names, i), name),
                      methods |-> Append(PyDel(c.methods, i), method)])

replace(c, name, method) ==
    IF ~In(name, c.names) THEN Raised(c, NotInList)
    ELSE LET i == PyIndex(c.names, name)
         IN Returned([names |-> c.names,
                      methods |-> PySet(c.methods, i, method)])

\* remove that deletes the method and leaves its id behind (mutant)
remove_keeps_name(c, name) ==
    IF ~In(name, c.names) THEN Raised(c, NotInList)
    ELSE LET i == PyIndex(c.names, name)
         IN Returned([names |-> c.names,
                      methods |-> PyDel(c.methods, i)])

\* remove that ignores an id that is not there (mutant)
remove_silent(c, name) ==
    IF ~In(name, c.names) THEN Returned(c)
    ELSE LET i == PyIndex(c.names, name)
         IN Returned([names |-> PyDel(c.names, i),
                      methods |-> PyDel(c.methods, i)])

remove(c, name) ==
    IF ~In(name, c.names) THEN Raised(c, NotInList)
    ELSE LET i == PyIndex(c.names, name)
         IN Returned([names |-> PyDel(c.names, i),
                      methods |-> PyDel(c.methods, i)])

reset(c) == Returned([names |-> <<>>, methods |-> <<>>])

contains(c, item) == In(item, c.names)

-----------------------------------------------------------------------------
(* SupportMethodCustomization: an object with one customizable method.     *)
(* The object is [meth, customs, old_id]:                                  *)
(*   meth    the value of the method attribute, a plain method or a        *)
(*           MethodComposer;                                               *)
(*   customs self._customs[method_name]: absent, a function, or an         *)
(*           OrderedDict id -> (function, specifiers), kept as the list of *)
(*           its items;                                                    *)
(*   old_id  self._old_ids[method_name], None when absent.                 *)

Plain(f) == [kind |-> "plain", func |-> f, names |-> <<>>, methods |-> <<>>]
Composer(c) == [kind |-> "composer", func |-> None,
                names |-> c.names, methods |-> c.methods]
IsComposer(m) == m.kind = "composer"

Absent == [kind |-> "absent", func |-> None, items |-> <<>>]
Function(f) == [kind |-> "func", func |-> f, items |-> <<>>]
Dict(items) == [kind |-> "dict", func |-> None, items |-> items]
Item(key, func, spec) == [key |-> key, func |-> func, spec |-> spec]

\* OrderedDict operations on the list of items
Keys(items) == [k \in 1..Len(items) |-> items[k].key]
HasKey(items, key) == In(key, Keys(items))
Get(items, key) == items[PyIndex(Keys(items), key) + 1]
\* d[key] = value : an existing key keeps its place, a new one goes last
Set(items, item) ==
    IF HasKey(items, item.key)
    THEN [items EXCEPT ![PyIndex(Keys(items), item.key) + 1] = item]
    ELSE Append(items, item)
Del(items, key) == PyDel(items, PyIndex(Keys(items), key))

Objects == {"A", "B"}

\* An object as SupportMethodCustomization.__init__ leaves it
NewObject(base) == [meth |-> Plain(base), customs |-> Absent, old_id |-> None]

SignatureMismatch == "ValueError: signature"
KeyError == "KeyError"
AttributeError == "AttributeError"
RuntimeError == "RuntimeError"

Result(st, e) == [st |-> st, err |-> e]

\* Validation hook of the owner.  It refuses a function whose signature
\* does not match (no function at all included) and turns a composition on
\* a method that is still the no-op base method into a plain replacement.
analyse_function(st, func, specifiers) ==
    IF func = None \/ func \in BadFuncs
    THEN [err |-> SignatureMismatch, specifiers |-> specifiers]
    ELSE IF specifiers # <<>> /\ st.meth = Plain("noop")
    THEN [err |-> NoError, specifiers |-> <<>>]
    ELSE [err |-> NoError, specifiers |-> specifiers]

\* Lines 495-503: what is remembered before the function is analysed.
remember_intent(customs, func, specifiers) ==
    IF specifiers = <<>> THEN Function(func)
    ELSE IF customs.kind = "absent" THEN Dict(<<>>)
    ELSE IF customs.kind = "func"
    THEN Dict(<<Item("old", customs.func, <<"prepend">>)>>)
    ELSE customs

\* Lines 534-544: the call of the composer method named by the specifiers.
update_composer(c, specifiers, modif_id, func) ==
    CASE specifiers[1] = "add_before" ->
            add_before(c, specifiers[2], modif_id, func)
      [] specifiers[1] = "add_after" ->
            add_after(c, specifiers[2], modif_id, func)
      [] specifiers[1] = "replace" -> replace(c, specifiers[2], func)
      [] specifiers[1] = "remove" -> remove(c, specifiers[2])
      [] specifiers[1] = "prepend" -> prepend(c, modif_id, func)
      [] specifiers[1] = "append" -> append(c, modif_id, func)

\* update_customs storing the directive of a replace as it was given when
\* the replaced step had no entry (mutant)
update_customs_keeps_directive(items, c, specifiers, modif_id, func) ==
    IF specifiers[1] = "remove"
    THEN IF HasKey(items, modif_id)
         THEN [items |-> Del(items, modif_id), err |-> NoError]
         ELSE [items |-> items, err |-> KeyError]
    ELSE IF specifiers[1] = "replace"
    THEN LET replaced == specifiers[2]
         IN IF HasKey(items, replaced)
            THEN [items |-> Set(items, Item(replaced, func,
                                            Get(items, replaced).spec)),
                  err |-> NoError]
            ELSE [items |-> Set(items, Item(replaced, func, specifiers)),
                  err |-> NoError]
    ELSE [items |-> Set(items, Item(modif_id, func, specifiers)),
          err |-> NoError]

\* update of the customizations in which a replacement is remembered with
\* the specifiers of the replacing call (mutant)
update_customs_as_called(items, c, specifiers, modif_id, func) ==
    IF specifiers[1] = "remove"
    THEN IF HasKey(items, modif_id)
         THEN [items |-> Del(items, modif_id), err |-> NoError]
         ELSE [items |-> items, err |-> KeyError]
    ELSE IF specifiers[1] = "replace"
    THEN [items |-> Set(items, Item(specifiers[2], func, specifiers)),
          err |-> NoError]
    ELSE [items |-> Set(items, Item(modif_id, func, specifiers)),
          err |-> NoError]

\* Lines 548-567: the update of the OrderedDict of customizations; c is the
\* composer after the call.
update_customs(items, c, specifiers, modif_id, func) ==
    IF specifiers[1] = "remove"
    THEN IF HasKey(items, modif_id)
         THEN [items |-> Del(items, modif_id), err |-> NoError]
         ELSE [items |-> items, err |-> KeyError]
    ELSE IF specifiers[1] = "replace"
    THEN LET replaced == specifiers[2]
         IN IF HasKey(items, replaced)
            THEN [items |-> Set(items, Item(replaced, func,
                                            Get(items, replaced).spec)),
                  err |-> NoError]
            ELSE LET ind == PyIndex(c.names, replaced)
                 IN IF ind = 0
                    THEN [items |-> Set(items, Item(replaced, func,
                                                    <<"prepend">>)),
                          err |-> NoError]
                    ELSE [items |-> Set(items, Item(replaced, func,
                                        <<"add_after", c.names[ind]>>)),
                          err |-> NoError]
    ELSE [items |-> Set(items, Item(modif_id, func, specifiers)),
          err |-> NoError]

\* modify_behavior with a replacement that leaves a composer in place
\* (mutant)
modify_behavior_keeps_composer(st, func, specifiers, given_id, internal) ==
    LET modif_id == IF specifiers # <<>> THEN given_id ELSE "old"
        st1 == IF internal THEN st
               ELSE [st EXCEPT !.customs =
                                remember_intent(@, func, specifiers)]
        a == IF specifiers = <<>> \/ specifiers[1] # "remove"
             THEN analyse_function(st1, func, specifiers)
             ELSE [err |-> NoError, specifiers |-> specifiers]
    IN IF a.err # NoError THEN Result(st1, a.err)
       ELSE IF a.specifiers = <<>>
       THEN Result([st1 EXCEPT !.old_id = modif_id,
                               !.meth = IF IsComposer(@) THEN @
                                        ELSE Plain(func)],
                   NoError)
       ELSE
        LET composer ==
                IF IsComposer(st1.meth)
                THEN [names |-> st1.meth.names, methods |-> st1.meth.methods]
                ELSE MethodComposer(st1.meth.func,
                                    IF st1.old_id = None THEN "old"
                                    ELSE st1.old_id)
            r == update_composer(composer, a.specifiers, modif_id, func)
            st2 == [st1 EXCEPT !.meth = Composer(r.c)]
        IN IF r.err # NoError THEN Result(st1, r.err)
           ELSE IF internal THEN Result(st2, NoError)
           ELSE LET u == update_customs(st2.customs.items, r.c,
                                        a.specifiers, modif_id, func)
                IN Result([st2 EXCEPT !.customs = Dict(u.items)], u.err)

\* modify_behavior that turns a composer left with a single method back
\* into that method (mutant)
modify_behavior_demotes(st, func, specifiers, given_id, internal) ==
    LET modif_id == IF specifiers # <<>> THEN given_id ELSE "old"
        st1 == IF internal THEN st
               ELSE [st EXCEPT !.customs =
                                remember_intent(@, func, specifiers)]
        a == IF specifiers = <<>> \/ specifiers[1] # "remove"
             THEN analyse_function(st1, func, specifiers)
             ELSE [err |-> NoError, specifiers |-> specifiers]
    IN IF a.err # NoError THEN Result(st1, a.err)
       ELSE IF a.specifiers = <<>>
       THEN Result([st1 EXCEPT !.old_id = modif_id, !.meth = Plain(func)],
                   NoError)
       ELSE
        LET composer ==
                IF IsComposer(st1.meth)
                THEN [names |-> st1.meth.names, methods |-> st1.meth.methods]
                ELSE MethodComposer(st1.meth.func,
                                    IF st1.old_id = None THEN "old"
                                    ELSE st1.old_id)
            r == update_composer(composer, a.specifiers, modif_id, func)
            st2 == [st1 EXCEPT !.meth = IF Len(r.c.names) = 1
                                        THEN Plain(r.c.methods[1])
                                        ELSE Composer(r.c)]
        IN IF r.err # NoError THEN Result(st1, r.err)
           ELSE IF internal THEN Result(st2, NoError)
           ELSE LET u == update_customs(st2.customs.items, r.c,
                                        a.specifiers, modif_id, func)
                IN Result([st2 EXCEPT !.customs = Dict(u.items)], u.err)

\* modify_behavior naming the original method "old" whatever id was
\* remembered for it (mutant)
modify_behavior_from_old(st, func, specifiers, given_id, internal) ==
    LET modif_id == IF specifiers # <<>> THEN given_id ELSE "old"
        st1 == IF internal THEN st
               ELSE [st EXCEPT !.customs =
                                remember_intent(@, func, specifiers)]
        a == IF specifiers = <<>> \/ specifiers[1] # "remove"
             THEN analyse_function(st1, func, specifiers)
             ELSE [err |-> NoError, specifiers |-> specifiers]
    IN IF a.err # NoError THEN Result(st1, a.err)
       ELSE IF a.specifiers = <<>>
       THEN Result([st1 EXCEPT !.old_id = modif_id, !.meth = Plain(func)],
                   NoError)
       ELSE
        LET composer ==
                IF IsComposer(st1.meth)
                THEN [names |-> st1.meth.names, methods |-> st1.meth.methods]
                ELSE MethodComposer(st1.meth.func, "old")
            r == update_composer(composer, a.specifiers, modif_id, func)
            st2 == [st1 EXCEPT !.meth = Composer(r.c)]
        IN IF r.err # NoError THEN Result(st1, r.err)
           ELSE IF internal THEN Result(st2, NoError)
           ELSE LET u == update_customs(st2.customs.items, r.c,
                                        a.specifiers, modif_id, func)
                IN Result([st2 EXCEPT !.customs = Dict(u.items)], u.err)

\* modify_behavior remembering internal modifications too (mutant)
modify_behavior_remembers_all(st, func, specifiers, given_id, internal) ==
    LET modif_id == IF specifiers # <<>> THEN given_id ELSE "old"
        st1 == [st EXCEPT !.customs = remember_intent(@, func, specifiers)]
        a == IF specifiers = <<>> \/ specifiers[1] # "remove"
             THEN analyse_function(st1, func, specifiers)
             ELSE [err |-> NoError, specifiers |-> specifiers]
    IN IF a.err # NoError THEN Result(st1, a.err)
       ELSE IF a.specifiers = <<>>
       THEN Result([st1 EXCEPT !.old_id = modif_id, !.meth = Plain(func)],
                   NoError)
       ELSE
        LET composer ==
                IF IsComposer(st1.meth)
                THEN [names |-> st1.meth.names, methods |-> st1.meth.methods]
                ELSE MethodComposer(st1.meth.func,
                                    IF st1.old_id = None THEN "old"
                                    ELSE st1.old_id)
            r == update_composer(composer, a.specifiers, modif_id, func)
            st2 == [st1 EXCEPT !.meth = Composer(r.c)]
        IN IF r.err # NoError THEN Result(st1, r.err)
           ELSE LET u == update_customs(st2.customs.items, r.c,
                                        a.specifiers, modif_id, func)
                IN Result([st2 EXCEPT !.customs = Dict(u.items)], u.err)

modify_behavior(st, func, specifiers, given_id, internal) ==
    LET modif_id == IF specifiers # <<>> THEN given_id ELSE "old"
        st1 == IF internal THEN st
               ELSE [st EXCEPT !.customs =
                                remember_intent(@, func, specifiers)]
        a == IF specifiers = <<>> \/ specifiers[1] # "remove"
             THEN analyse_function(st1, func, specifiers)
             ELSE [err |-> NoError, specifiers |-> specifiers]
    IN IF a.err # NoError THEN Result(st1, a.err)
       ELSE IF a.specifiers = <<>>
       THEN Result([st1 EXCEPT !.old_id = modif_id, !.meth = Plain(func)],
                   NoError)
       ELSE
        LET composer ==
                IF IsComposer(st1.meth)
                THEN [names |-> st1.meth.names, methods |-> st1.meth.methods]
                ELSE MethodComposer(st1.meth.func,
                                    IF st1.old_id = None THEN "old"
                                    ELSE st1.old_id)
            r == update_composer(composer, a.specifiers, modif_id, func)
            st2 == [st1 EXCEPT !.meth = Composer(r.c)]
        IN IF r.err # NoError THEN Result(st1, r.err)
           ELSE IF internal THEN Result(st2, NoError)
           ELSE LET u == update_customs(st2.customs.items, r.c,
                                        a.specifiers, modif_id, func)
                IN Result([st2 EXCEPT !.customs = Dict(u.items)], u.err)

\* customize.customize, lines 357-379
customize(st, func, specifiers, modif_id) ==
    IF func = None /\ (specifiers = <<>> \/ specifiers[1] = "remove")
    THEN Result(st, RuntimeError)
    ELSE modify_behavior(st, func, specifiers, modif_id, FALSE)

\* Line 620: the direction of the search for another anchor.
shift(kind) == IF kind = "add_after" THEN -1 ELSE -1

\* Lines 622-630: the search, from the place of the customization in the
\* composer of the source, for an id that the target has too.
RECURSIVE scan(_, _, _, _)
scan(names, our_names, index, sh) ==
    IF index > 0 /\ index < Len(names) - 1
    THEN LET next == index + sh
             name == names[next + 1]
         IN IF In(name, our_names) THEN [found |-> TRUE, name |-> name]
            ELSE scan(names, our_names, next, sh)
    ELSE [found |-> FALSE, name |-> None]

\* replay of one item in which the directives of a target that is not a
\* composer are swapped (mutant)
copy_item_swapped(self, obj, item) ==
    LET kind == item.spec[1]
    IN IF kind \notin {"add_after", "add_before"}
       THEN modify_behavior(self, item.func, item.spec, item.key, FALSE)
       ELSE IF ~IsComposer(self.meth)
       THEN modify_behavior(self, item.func,
                            IF kind = "add_after" THEN <<"prepend">>
                            ELSE <<"append">>,
                            item.key, FALSE)
       ELSE IF In(item.spec[2], self.meth.names)
       THEN modify_behavior(self, item.func, item.spec, item.key, FALSE)
       ELSE IF ~IsComposer(obj.meth) THEN Result(self, AttributeError)
       ELSE IF ~In(item.key, obj.meth.names) THEN Result(self, NotInList)
       ELSE LET s == scan(obj.meth.names, self.meth.names,
                          PyIndex(obj.meth.names, item.key), shift(kind))
            IN IF s.found
               THEN modify_behavior(self, item.func, <<kind, s.name>>,
                                    item.key, FALSE)
               ELSE modify_behavior(self, item.func,
                                    IF shift(kind) = -1 THEN <<"prepend">>
                                    ELSE <<"append">>,
                                    item.key, FALSE)

\* Lines 591-634: the replay of one item of the source's OrderedDict.
copy_item(self, obj, item) ==
    LET kind == item.spec[1]
    IN IF kind \notin {"add_after", "add_before"}
       THEN modify_behavior(self, item.func, item.spec, item.key, FALSE)
       ELSE IF ~IsComposer(self.meth)
       THEN modify_behavior(self, item.func,
                            IF kind = "add_after" THEN <<"append">>
                            ELSE <<"prepend">>,
                            item.key, FALSE)
       ELSE IF In(item.spec[2], self.meth.names)
       THEN modify_behavior(self, item.func, item.spec, item.key, FALSE)
       ELSE IF ~IsComposer(obj.meth) THEN Result(self, AttributeError)
       ELSE IF ~In(item.key, obj.meth.names) THEN Result(self, NotInList)
       ELSE LET s == scan(obj.meth.names, self.meth.names,
                          PyIndex(obj.meth.names, item.key), shift(kind))
            IN IF s.found
               THEN modify_behavior(self, item.func, <<kind, s.name>>,
                                    item.key, FALSE)
               ELSE modify_behavior(self, item.func,
                                    IF shift(kind) = -1 THEN <<"prepend">>
                                    ELSE <<"append">>,
                                    item.key, FALSE)

RECURSIVE copy_items(_, _, _)
copy_items(self, obj, k) ==
    IF k > Len(obj.customs.items) THEN Result(self, NoError)
    ELSE LET r == copy_item(self, obj, obj.customs.items[k])
         IN IF r.err # NoError THEN r ELSE copy_items(r.st, obj, k + 1)

\* copy_custom_behaviors, lines 569-634: self is the target, obj the source
copy_custom_behaviors(self, obj) ==
    IF obj.customs.kind = "absent" THEN Result(self, NoError)
    ELSE IF obj.customs.kind = "func"
    THEN modify_behavior(self, obj.customs.func, <<>>, "custom", FALSE)
    ELSE copy_items(self, obj, 1)

-----------------------------------------------------------------------------
(* MetaMethodComposer: the classes of the composers.  Creating a composer  *)
(* runs MetaMethodComposer.__call__, which looks the class generated for   *)
(* the signatures and the chained argument up in MetaMethodComposer.sigs   *)
(* and generates it when it is not there.  Calling a composer runs the     *)
(* __call__ method of its generated class.                                 *)

\* Most composers created.
MaxObjs == 2

\* Kinds of parameters (inspect.Parameter.kind)
Positional == "POSITIONAL_OR_KEYWORD"
VarPositional == "VAR_POSITIONAL"
VarKeyword == "VAR_KEYWORD"
Param(name, kind) == [name |-> name, kind |-> kind]

\* The functions used as methods of composers: inc(self, val) returns
\* val + 1, dbl(driver, val) returns 2 * val, tick(self) returns 1.
StepFuncs == {"inc", "dbl", "tick"}

\* inspect.signature(func).parameters
signature(func) ==
    CASE func = "inc" -> <<Param("self", Positional), Param("val", Positional)>>
      [] func = "dbl" -> <<Param("driver", Positional),
                           Param("val", Positional)>>
      [] func = "tick" -> <<Param("self", Positional)>>

\* Python values: None and the integers.
PyNone == [none |-> TRUE, n |-> 0]
PyInt(n) == [none |-> FALSE, n |-> n]

\* The value a function returns for the arguments that follow the object.
returns(func, args) ==
    CASE func = "inc" -> PyInt(args[1].n + 1)
      [] func = "dbl" -> PyInt(2 * args[1].n)
      [] func = "tick" -> PyInt(1)

\* The signatures argument: None, or a list of normalized signatures.
NoSignatures == [given |-> FALSE, list |-> <<>>]
Signatures(list) == [given |-> TRUE, list |-> list]

TypeError == "TypeError"
UnboundLocalError == "UnboundLocalError"

\* norm_arg that never uses the alias (mutant)
norm_arg_unaliased(arg, alias) ==
    IF arg.kind = VarPositional THEN "*" \o arg.name
    ELSE IF arg.kind = VarKeyword THEN "**" \o arg.name
    ELSE arg.name

\* `if alias` : None and the empty string are false
norm_arg(arg, alias) ==
    IF alias # None /\ alias # "" /\ arg.name = "self" THEN alias
    ELSE IF arg.kind = VarPositional THEN "*" \o arg.name
    ELSE IF arg.kind = VarKeyword THEN "**" \o arg.name
    ELSE arg.name

normalize_signature(sig, alias) ==
    [k \in 1..Len(sig) |-> norm_arg(sig[k], alias)]

\* No signature was normalized yet.
InitNormalizer ==
    /\ given = [sigs |-> <<<<>>, <<>>>>, alias |-> None]
    /\ normalized = <<>>

\* The class that create_composer generates: the arguments of its __call__
\* after self and the name it chains on ('' for none).
create_composer(name, sg, chain_on) ==
    [name |-> name,
     args |-> Tail(sg[1]),
     chain |-> IF chain_on = None THEN "" ELSE chain_on]

\* Lines 93-96: the signatures used when none are given.
used_signatures(func, alias, signatures) ==
    IF ~signatures.given \/ signatures.list = <<>>
    THEN <<normalize_signature(signature(func), alias)>>
    ELSE signatures.list

\* Line 98: the key of the class in MetaMethodComposer.sigs.
id_(sg, chain_on) == <<sg, chain_on>>

\* Lines 104-107 and MethodComposer.__init__: the composer created.
new_composer(type, func, alias, chain_on, func_id, sg) ==
    [type |-> type, alias |-> alias, chain_on |-> chain_on,
     names |-> <<func_id>>, methods |-> <<func>>, signatures |-> sg]

\* MetaMethodComposer.__call__ that generates a class on every call
\* (mutant)
MetaMethodComposer_call_uncached(cache, cls, func, alias, chain_on, func_id, signatures) ==
    LET sg == used_signatures(func, alias, signatures)
        key == id_(sg, chain_on)
        classes1 == Append(cls, create_composer(func, sg, chain_on))
        cache1 == IF key \in DOMAIN cache
                  THEN [cache EXCEPT ![key] = Len(classes1)]
                  ELSE cache @@ (key :> Len(classes1))
    IN [sigs |-> cache1, classes |-> classes1, hit |-> FALSE,
        err |-> NoError,
        obj |-> new_composer(cache1[key], func, alias, chain_on, func_id,
                             sg)]

\* MetaMethodComposer.__call__ that takes the signatures as they are given
\* (mutant)
MetaMethodComposer_call_as_given(cache, cls, func, alias, chain_on, func_id, signatures) ==
    LET sg == signatures.list
        key == id_(sg, chain_on)
        miss == key \notin DOMAIN cache
        classes1 == IF miss
                    THEN Append(cls, [name |-> func, args |-> <<>>,
                                      chain |-> IF chain_on = None THEN ""
                                                ELSE chain_on])
                    ELSE cls
        cache1 == IF miss THEN cache @@ (key :> Len(classes1)) ELSE cache
    IN [sigs |-> cache1, classes |-> classes1, hit |-> ~miss,
        err |-> NoError,
        obj |-> new_composer(cache1[key], func, alias, chain_on, func_id,
                             sg)]

\* MetaMethodComposer.__call__, lines 63-107
MetaMethodComposer_call(cache, cls, func, alias, chain_on, func_id, signatures) ==
    LET sg == used_signatures(func, alias, signatures)
        key == id_(sg, chain_on)
        miss == key \notin DOMAIN cache
        classes1 == IF miss
                    THEN Append(cls, create_composer(func, sg, chain_on))
                    ELSE cls
        cache1 == IF miss THEN cache @@ (key :> Len(classes1)) ELSE cache
    IN [sigs |-> cache1, classes |-> classes1, hit |-> ~miss,
        err |-> NoError,
        obj |-> new_composer(cache1[key], func, alias, chain_on, func_id,
                             sg)]

\* One call m(self.__self__, args) made by a composer.
call_method(m, args) ==
    IF Len(signature(m)) - 1 # Len(args)
       \/ \E k \in 1..Len(args) : args[k].none
    THEN [ret |-> PyNone, err |-> TypeError]
    ELSE [ret |-> returns(m, args), err |-> NoError]

\* The place of the chained name among the arguments, 0 when it is not one.
chain_position(cls) ==
    IF \E k \in 1..Len(cls.args) : cls.args[k] = cls.chain
    THEN CHOOSE k \in 1..Len(cls.args) : cls.args[k] = cls.chain
    ELSE 0

\* The generated __call__ in which every method gets the arguments of the
\* call and the value of the last one is returned (mutant)
Composer_call_unchained(cls, methods, k, args, local, trace) ==
    IF methods = <<>> THEN [ret |-> PyNone, err |-> NoError, trace |-> <<>>]
    ELSE [ret |-> IF cls.chain = "" THEN PyNone
                  ELSE returns(methods[Len(methods)], args),
          err |-> NoError,
          trace |-> [i \in 1..Len(methods) |-> <<methods[i], args>>]]

\* The generated __call__ that returns what the last method returned also
\* when there is no chained argument (mutant)
RECURSIVE Composer_call_returning(_, _, _, _, _, _)
Composer_call_returning(cls, methods, k, args, local, trace) ==
    IF k > Len(methods)
    THEN [ret |-> local.val, err |-> NoError, trace |-> trace]
    ELSE LET r == call_method(methods[k], args)
             called == Append(trace, <<methods[k], args>>)
         IN IF r.err # NoError
            THEN [ret |-> PyNone, err |-> r.err, trace |-> called]
            ELSE Composer_call_returning(
                    cls, methods, k + 1,
                    IF chain_position(cls) > 0
                    THEN [args EXCEPT ![chain_position(cls)] = r.ret]
                    ELSE args,
                    [bound |-> TRUE, val |-> r.ret], called)

\* The __call__ method of a generated class, lines 119-122, from its k-th
\* method on: args are the values of the arguments, local is the local
\* variable named by chain when it is not an argument.
RECURSIVE Composer_call(_, _, _, _, _, _)
Composer_call(cls, methods, k, args, local, trace) ==
    IF k > Len(methods)
    THEN IF cls.chain = ""
         THEN [ret |-> PyNone, err |-> NoError, trace |-> trace]
         ELSE IF chain_position(cls) > 0
         THEN [ret |-> args[chain_position(cls)], err |-> NoError,
               trace |-> trace]
         ELSE IF local.bound
         THEN [ret |-> local.val, err |-> NoError, trace |-> trace]
         ELSE [ret |-> PyNone, err |-> UnboundLocalError, trace |-> trace]
    ELSE LET r == call_method(methods[k], args)
             called == Append(trace, <<methods[k], args>>)
         IN IF r.err # NoError
            THEN [ret |-> PyNone, err |-> r.err, trace |-> called]
            ELSE IF cls.chain = ""
            THEN Composer_call(cls, methods, k + 1, args, local, called)
            ELSE IF chain_position(cls) > 0
            THEN Composer_call(cls, methods, k + 1,
                               [args EXCEPT ![chain_position(cls)] = r.ret],
                               local, called)
            ELSE Composer_call(cls, methods, k + 1, args,
                               [bound |-> TRUE, val |-> r.ret], called)

\* The callers of SpecThreads
Threads == {1, 2}

NoOperation ==
    [op |-> "none", p |-> 0, func |-> None, chain_on |-> None,
     signatures |-> NoSignatures, hit |-> FALSE, val |-> PyNone,
     ret |-> PyNone, trace |-> <<>>, err |-> NoError]

Idle ==
    [pc |-> "idle", func |-> None, chain_on |-> None,
     signatures |-> NoSignatures, sigs |-> <<>>, subclass |-> 0]

\* The cache of classes is empty and there is no composer.
InitShape ==
    /\ sigs = <<>>
    /\ classes = <<>>
    /\ objs = <<>>
    /\ out = NoOperation
    /\ frame = [t \in Threads |-> Idle]

-----------------------------------------------------------------------------
(* unit.py: the unit registry of the process.  A registry is [kind, n]:    *)
(* one of the registries a caller gives, or the n-th registry created by   *)
(* UnitRegistry().                                                         *)

\* Most UnitRegistry objects created by get_unit_registry.
MaxRegistries == 2

ValueError == "ValueError"

Registry(kind, n) == [kind |-> kind, n |-> n]
\* UNIT_REGISTRY = None
NoRegistry == Registry("None", 0)
Given == {Registry("r1", 0), Registry("r2", 0), Registry("r3", 0)}
Default(n) == Registry("default", n)

\* `if UNIT_REGISTRY:` : None is false, a registry object is true
Truthy(reg) == reg # NoRegistry

\* set_unit_registry without the test of line 62 (mutant)
set_unit_registry_again(reg, ret, unit_registry, return_quantity) ==
    [UNIT_REGISTRY |-> unit_registry, UNIT_RETURN |-> return_quantity,
     err |-> NoError]

set_unit_registry(reg, ret, unit_registry, return_quantity) ==
    IF Truthy(reg)
    THEN [UNIT_REGISTRY |-> reg, UNIT_RETURN |-> ret, err |-> ValueError]
    ELSE [UNIT_REGISTRY |-> unit_registry, UNIT_RETURN |-> return_quantity,
          err |-> NoError]

\* Without pint UnitRegistry is typing.Any, which cannot be instantiated.
get_unit_registry(reg, support, n) ==
    IF ~Truthy(reg)
    THEN IF support
         THEN [UNIT_REGISTRY |-> Default(n + 1), made |-> n + 1,
               ret |-> Default(n + 1), err |-> NoError]
         ELSE [UNIT_REGISTRY |-> reg, made |-> n,
               ret |-> NoRegistry, err |-> TypeError]
    ELSE [UNIT_REGISTRY |-> reg, made |-> n, ret |-> reg, err |-> NoError]

\* to_quantity: the registry whose units the value was multiplied by,
\* NoRegistry when the value is returned as it is.
to_quantity(reg, support, n) ==
    IF support THEN get_unit_registry(reg, support, n)
    ELSE [UNIT_REGISTRY |-> reg, made |-> n,
          ret |-> NoRegistry, err |-> NoError]

NoCall ==
    [op |-> "none", unit_registry |-> NoRegistry, return_quantity |-> TRUE,
     ret |-> NoRegistry, err |-> NoError]

\* unit.py as imported with pint, nothing called yet
InitUnit ==
    /\ UNIT_REGISTRY = NoRegistry
    /\ UNIT_RETURN = TRUE
    /\ UNIT_SUPPORT = TRUE
    /\ made = 0
    /\ unit_out = NoCall

-----------------------------------------------------------------------------
(* ChannelDescriptor: the descriptors of a class and the dictionary        *)
(* _channel_container_instances of each of its instances.  A container is  *)
(* known by its index in the list of the containers created.               *)

Instances == {1, 2}
\* instance is None: the descriptor is read on the class
NoInstance == 0

\* The descriptors of the class, by name, and their options
Descriptors == {"ch", "aux"}
options(name) == IF name = "aux" THEN "opt" ELSE ""

NoContainer == 0

\* What __get__ returns
TheClass(name) == [kind |-> "class", name |-> name, id |-> 0]
TheContainer(name, id) == [kind |-> "container", name |-> name, id |-> id]
Nothing == [kind |-> "none", name |-> "", id |-> 0]

\* self.container(self.cls, instance, self.name, ...)
NewContainer(instance, name) == [parent |-> instance, name |-> name]

\* __get__ storing the container before the options are checked (mutant)
ChannelDescriptor_get_stores_first(insts, conts, instance, name, test) ==
    IF instance = NoInstance
    THEN [instances |-> insts, containers |-> conts,
          ret |-> TheClass(name), err |-> NoError]
    ELSE IF insts[instance][name] = NoContainer
    THEN LET made_ == Append(conts, NewContainer(instance, name))
             kept == [insts EXCEPT ![instance][name] = Len(made_)]
         IN IF options(name) # "" /\ ~test
            THEN [instances |-> kept, containers |-> made_,
                  ret |-> Nothing, err |-> AttributeError]
            ELSE [instances |-> kept, containers |-> made_,
                  ret |-> TheContainer(name, Len(made_)), err |-> NoError]
    ELSE [instances |-> insts, containers |-> conts,
          ret |-> TheContainer(name, insts[instance][name]),
          err |-> NoError]

\* ChannelDescriptor.__get__; test is what check_options answers
ChannelDescriptor_get(insts, conts, instance, name, test) ==
    IF instance = NoInstance
    THEN [instances |-> insts, containers |-> conts,
          ret |-> TheClass(name), err |-> NoError]
    ELSE IF insts[instance][name] = NoContainer
    THEN IF options(name) # "" /\ ~test
         THEN [instances |-> insts, containers |-> conts,
               ret |-> Nothing, err |-> AttributeError]
         ELSE LET made_ == Append(conts, NewContainer(instance, name))
                  kept == [insts EXCEPT ![instance][name] = Len(made_)]
              IN [instances |-> kept, containers |-> made_,
                  ret |-> TheContainer(name, kept[instance][name]),
                  err |-> NoError]
    ELSE [instances |-> insts, containers |-> conts,
          ret |-> TheContainer(name, insts[instance][name]),
          err |-> NoError]

NoAccess == [instance |-> NoInstance, name |-> "", ret |-> Nothing,
             err |-> NoError]

\* No instance was asked for a container yet.
InitDescriptors ==
    /\ channel_container_instances =
            [i \in Instances |-> [n \in Descriptors |-> NoContainer]]
    /\ containers = <<>>
    /\ channel_out = NoAccess

-----------------------------------------------------------------------------
(* ChannelContainer: one container, its inverted table of aliases          *)
(* (_aliases) and its dictionary of channels (_channels).  A channel is    *)
(* known by its id and by its rank among the channels created.             *)

\* The ids of the channels of the instrument, and the names a declaration
\* may give as aliases (one of them is also the id of a channel)
ChannelIds == {"c1", "c2"}
AliasNames == {"a", "b", "c1"}
\* What a container may be asked for
ChannelKeys == ChannelIds \cup AliasNames

\* A tuple or a list of aliases holds at most MaxNames names
MaxNames == 2

\* A value of the aliases dict: one name, or a tuple/list of names
Single(v) == [tuple |-> FALSE, names |-> <<v>>]
Tuple(names) == [tuple |-> TRUE, names |-> names]
AliasValues ==
    {Single(v) : v \in AliasNames}
        \cup {Tuple(names) : names \in
                UNION {[1..n -> AliasNames] : n \in 1..MaxNames}}

\* The aliases dicts a descriptor may hold: channel id -> aliases, in the
\* order of the dict
AliasItems == [k : ChannelIds, v : AliasValues]
AliasDicts ==
    {<<>>}
        \cup {<<item>> : item \in AliasItems}
        \cup {d \in [1..2 -> AliasItems] : d[1].k # d[2].k}

NoChannel == [id |-> "", n |-> 0]
\* self._cls(parent, ch_id, ...): the n-th channel created
Channel(ch_id, n) == [id |-> ch_id, n |-> n]

\* key not in self._aliases
NoAlias == ""

\* Lines 58-62: the names of one item of the dict are entered one after
\* the other (a single value as the only name)
RECURSIVE invert_names(_, _, _, _)
invert_names(table, k, names, i) ==
    IF i > Len(names)
    THEN table
    ELSE invert_names([table EXCEPT ![names[i]] = k], k, names, i + 1)

\* Lines 56-62: for k, v in aliases.items()
RECURSIVE invert(_, _, _)
invert(table, aliases, i) ==
    IF i > Len(aliases)
    THEN table
    ELSE invert(invert_names(table, aliases[i].k, aliases[i].v.names, 1),
                aliases, i + 1)

\* ChannelContainer.__init__
ChannelContainer_init(aliases) ==
    [given |-> aliases,
     aliases |-> invert([key \in ChannelKeys |-> NoAlias], aliases, 1),
     channels |-> [id \in ChannelIds |-> NoChannel],
     count |-> 0]

\* ch_id in self._channels (a key that is no channel id is never cached)
Cached(c, ch_id) == ch_id \in ChannelIds /\ c.channels[ch_id] # NoChannel

\* __getitem__ asking for the available channels before it looks in the
\* cache (mutant)
ChannelContainer_getitem_rechecks(c, key, chs) ==
    LET ch_id == IF c.aliases[key] # NoAlias THEN c.aliases[key] ELSE key
    IN IF ch_id \notin chs
       THEN [cc |-> c, ret |-> NoChannel, err |-> KeyError]
       ELSE IF Cached(c, ch_id)
       THEN [cc |-> c, ret |-> c.channels[ch_id], err |-> NoError]
       ELSE LET ch == Channel(ch_id, c.count + 1)
            IN [cc |-> [c EXCEPT !.channels[ch_id] = ch,
                                 !.count = c.count + 1],
                ret |-> ch, err |-> NoError]

\* __getitem__ consulting the cache and the available channels under the
\* key as it was given (mutant)
ChannelContainer_getitem_unresolved(c, key, chs) ==
    IF Cached(c, key)
    THEN [cc |-> c, ret |-> c.channels[key], err |-> NoError]
    ELSE IF key \notin chs
    THEN [cc |-> c, ret |-> NoChannel, err |-> KeyError]
    ELSE LET ch == Channel(key, c.count + 1)
         IN [cc |-> [c EXCEPT !.channels[key] = ch,
                              !.count = c.count + 1],
             ret |-> ch, err |-> NoError]

\* ChannelContainer.__getitem__; chs is what self.available answers if it
\* is asked
ChannelContainer_getitem(c, key, chs) ==
    LET ch_id == IF c.aliases[key] # NoAlias THEN c.aliases[key] ELSE key
    IN IF Cached(c, ch_id)
       THEN [cc |-> c, ret |-> c.channels[ch_id], err |-> NoError]
       ELSE IF ch_id \notin chs
       THEN [cc |-> c, ret |-> NoChannel, err |-> KeyError]
       ELSE LET ch == Channel(ch_id, c.count + 1)
            IN [cc |-> [c EXCEPT !.channels[ch_id] = ch,
                                 !.count = c.count + 1],
                ret |-> ch, err |-> NoError]

NoLookup == [key |-> "", chs |-> {}, ret |-> NoChannel, err |-> NoError]

\* A container without aliases, nothing looked up
InitContainer ==
    /\ cc = ChannelContainer_init(<<>>)
    /\ item_out = NoLookup

InitChannel == InitDescriptors /\ InitContainer

InitDevice == InitUnit /\ InitChannel

-----------------------------------------------------------------------------
(* SpecComposer: composers as Python objects.  A composer holds references *)
(* to two list objects; its methods mutate those lists in place, reset     *)
(* rebinds the composer to new lists and clone copies the lists.           *)

Handles == {1, 2}
\* The handle of a composer that was not created yet.
Null == [names |-> 0, methods |-> 0]

NamesAddr(h) == 2 * h - 1
MethodsAddr(h) == 2 * h
Addrs == 1..4

\* The value of the composer behind handle h.
Deref(ls, cp, h) == [names |-> ls[cp[h].names], methods |-> ls[cp[h].methods]]

\* In-place mutation of the lists of the composer behind h.
Mutate(ls, cp, h, c) ==
    [ls EXCEPT ![cp[h].names] = c.names, ![cp[h].methods] = c.methods]

\* self._names = []; self._methods = [] : two new list objects.
Rebind(ls, cp, h, c) ==
    [lists |-> [ls EXCEPT ![NamesAddr(h)] = c.names,
                           ![MethodsAddr(h)] = c.methods],
     comp |-> [cp EXCEPT ![h] = [names |-> NamesAddr(h),
                                 methods |-> MethodsAddr(h)]]]

\* clone copying the list of methods only: the new composer shares the
\* list of names of the old one (mutant)
clone_shares_names(ls, cp, h, new) ==
    [lists |-> [ls EXCEPT ![MethodsAddr(new)] = ls[cp[h].methods]],
     comp |-> [cp EXCEPT ![new] = [names |-> cp[h].names,
                                   methods |-> MethodsAddr(new)]]]

\* clone binding the new composer to the lists of the old one (mutant)
clone_shared(ls, cp, h, new) ==
    [lists |-> ls, comp |-> [cp EXCEPT ![new] = cp[h]]]

\* clone: a new composer whose lists are copies (self._names[:]).
clone(ls, cp, h, new) ==
    [lists |-> [ls EXCEPT ![NamesAddr(new)] = ls[cp[h].names],
                           ![MethodsAddr(new)] = ls[cp[h].methods]],
     comp |-> [cp EXCEPT ![new] = [names |-> NamesAddr(new),
                                   methods |-> MethodsAddr(new)]]]

Live(h) == comp[h].names # 0

\* Reference ordered list: one list of <<id, method>> pairs, positions
\* counted from 1.
RefIds(s) == {s[k][1] : k \in 1..Len(s)}
RefPos(s, id) == CHOOSE k \in 1..Len(s) : s[k][1] = id
RefInsert(s, pos, pair) ==
    [k \in 1..(Len(s) + 1) |->
        IF k < pos THEN s[k] ELSE IF k = pos THEN pair ELSE s[k - 1]]
RefDelete(s, pos) ==
    [k \in 1..(Len(s) - 1) |-> IF k < pos THEN s[k] ELSE s[k + 1]]
RefPrepend(s, id, m) ==
    IF id \in RefIds(s) THEN s ELSE RefInsert(s, 1, <<id, m>>)
RefAppend(s, id, m) ==
    IF id \in RefIds(s) THEN s ELSE RefInsert(s, Len(s) + 1, <<id, m>>)
RefAddAfter(s, anchor, id, m) ==
    IF id \in RefIds(s) \/ anchor \notin RefIds(s) THEN s
    ELSE RefInsert(s, RefPos(s, anchor) + 1, <<id, m>>)
RefAddBefore(s, anchor, id, m) ==
    IF id \in RefIds(s) \/ anchor \notin RefIds(s) THEN s
    ELSE RefInsert(s, RefPos(s, anchor), <<id, m>>)
RefReplace(s, id, m) ==
    IF id \notin RefIds(s) THEN s
    ELSE [s EXCEPT ![RefPos(s, id)] = <<id, m>>]
RefRemove(s, id) ==
    IF id \notin RefIds(s) THEN s ELSE RefDelete(s, RefPos(s, id))

\* An insertion is attempted on a full list only when it is going to fail.
Room(r, c) == r.err # NoError \/ Len(c.names) < MaxLen

InitComposer ==
    /\ \E f \in Steps :
        /\ lists = [a \in Addrs |-> IF a = NamesAddr(1) THEN <<"old">>
                                    ELSE IF a = MethodsAddr(1) THEN <<f>>
                                    ELSE <<>>]
        /\ ref = [h \in Handles |-> IF h = 1 THEN << <<"old", f>> >> ELSE <<>>]
    /\ comp = [h \in Handles |->
                 IF h = 1 THEN [names |-> NamesAddr(1), methods |-> MethodsAddr(1)]
                 ELSE Null]
    /\ err = NoError
    /\ owner = [o \in Objects |-> NewObject("base")]
    /\ start = [o \in Objects |-> NewObject("base")]
    /\ phase = "build"
    /\ calls = 0
    /\ clean = TRUE
    /\ InitShape
    /\ InitDevice
    /\ InitNormalizer

DoPrepend(h, name, method) ==
    /\ Live(h)
    /\ LET c == Deref(lists, comp, h)
           r == prepend(c, name, method)
       IN /\ Room(r, c)
          /\ lists' = Mutate(lists, comp, h, r.c)
          /\ err' = r.err
    /\ ref' = [ref EXCEPT ![h] = RefPrepend(@, name, method)]
    /\ UNCHANGED <<comp, ownerVars, shapeVars, deviceVars, signatureVars>>

DoAppend(h, name, method) ==
    /\ Live(h)
    /\ LET c == Deref(lists, comp, h)
           r == append(c, name, method)
       IN /\ Room(r, c)
          /\ lists' = Mutate(lists, comp, h, r.c)
          /\ err' = r.err
    /\ ref' = [ref EXCEPT ![h] = RefAppend(@, name, method)]
    /\ UNCHANGED <<comp, ownerVars, shapeVars, deviceVars, signatureVars>>

DoAddAfter(h, anchor, name, method) ==
    /\ Live(h)
    /\ LET c == Deref(lists, comp, h)
           r == add_after(c, anchor, name, method)
       IN /\ Room(r, c)
          /\ lists' = Mutate(lists, comp, h, r.c)
          /\ err' = r.err
    /\ ref' = [ref EXCEPT ![h] = RefAddAfter(@, anchor, name, method)]
    /\ UNCHANGED <<comp, ownerVars, shapeVars, deviceVars, signatureVars>>

DoAddBefore(h, anchor, name, method) ==
    /\ Live(h)
    /\ LET c == Deref(lists, comp, h)
           r == add_before(c, anchor, name, method)
       IN /\ Room(r, c)
          /\ lists' = Mutate(lists, comp, h, r.c)
          /\ err' = r.err
    /\ ref' = [ref EXCEPT ![h] = RefAddBefore(@, anchor, name, method)]
    /\ UNCHANGED <<comp, ownerVars, shapeVars, deviceVars, signatureVars>>

DoReplace(h, name, method) ==
    /\ Live(h)
    /\ LET r == replace(Deref(lists, comp, h), name, method)
       IN /\ lists' = Mutate(lists, comp, h, r.c)
          /\ err' = r.err
    /\ ref' = [ref EXCEPT ![h] = RefReplace(@, name, method)]
    /\ UNCHANGED <<comp, ownerVars, shapeVars, deviceVars, signatureVars>>

DoRemove(h, name) ==
    /\ Live(h)
    /\ LET r == remove(Deref(lists, comp, h), name)
       IN /\ lists' = Mutate(lists, comp, h, r.c)
          /\ err' = r.err
    /\ ref' = [ref EXCEPT ![h] = RefRemove(@, name)]
    /\ UNCHANGED <<comp, ownerVars, shapeVars, deviceVars, signatureVars>>

DoReset(h) ==
    /\ Live(h)
    /\ LET r == reset(Deref(lists, comp, h))
           n == Rebind(lists, comp, h, r.c)
       IN /\ lists' = n.lists
          /\ comp' = n.comp
          /\ err' = r.err
    /\ ref' = [ref EXCEPT ![h] = <<>>]
    /\ UNCHANGED <<ownerVars, shapeVars, deviceVars, signatureVars>>

DoClone(h, new) ==
    /\ Live(h)
    /\ new # h
    /\ LET n == clone(lists, comp, h, new)
       IN /\ lists' = n.lists
          /\ comp' = n.comp
    /\ err' = NoError
    /\ ref' = [ref EXCEPT ![new] = ref[h]]
    /\ UNCHANGED <<ownerVars, shapeVars, deviceVars, signatureVars>>

NextComposer ==
    \/ \E h \in Handles, name \in Ids, method \in Steps :
            DoPrepend(h, name, method)
    \/ \E h \in Handles, name \in Ids, method \in Steps :
            DoAppend(h, name, method)
    \/ \E h \in Handles, anchor \in Ids, name \in Ids, method \in Steps :
            DoAddAfter(h, anchor, name, method)
    \/ \E h \in Handles, anchor \in Ids, name \in Ids, method \in Steps :
            DoAddBefore(h, anchor, name, method)
    \/ \E h \in Handles, name \in Ids, method \in Steps :
            DoReplace(h, name, method)
    \/ \E h \in Handles, name \in Ids : DoRemove(h, name)
    \/ \E h \in Handles : DoReset(h)
    \/ \E h \in Handles, new \in Handles : DoClone(h, new)

SpecComposer == InitComposer /\ [][NextComposer]_vars

-----------------------------------------------------------------------------
(* Spec: object A is constructed, then customized; object B is constructed *)
(* and receives the customizations of A through copy_custom_behaviors.     *)

\* The forms of the specifiers argument
Specifiers ==
    {<<>>, <<"prepend">>, <<"append">>}
    \cup {<<kind, anchor>> : kind \in {"add_before", "add_after",
                                       "replace", "remove"},
                             anchor \in OwnerIds}

InitOwner ==
    /\ \E base \in {"base", "noop"} :
        /\ owner = [o \in Objects |-> NewObject(base)]
        /\ start = [o \in Objects |-> NewObject(base)]
    /\ phase = "build"
    /\ calls = 0
    /\ clean = TRUE

Init ==
    /\ InitOwner
    /\ err = NoError
    /\ lists = [a \in Addrs |-> <<>>]
    /\ comp = [h \in Handles |-> Null]
    /\ ref = [h \in Handles |-> <<>>]
    /\ InitShape
    /\ InitDevice
    /\ InitNormalizer

\* A constructor adding a method of its own: an internal append
\* (as Mapping.__init__ does).  A constructor that raises leaves no object.
\* The method A adds is called x; B adds the same method, another one (y),
\* or both in either order.
Construct(o, id) ==
    /\ \/ o = "A" /\ phase = "build" /\ id = "x"
       \/ o = "B" /\ phase \in {"build", "custom", "rebuild"}
    /\ LET r == modify_behavior(owner[o], "m", <<"append">>, id, TRUE)
       IN /\ r.err = NoError
          /\ owner' = [owner EXCEPT ![o] = r.st]
          /\ start' = [start EXCEPT ![o] = r.st]
    /\ phase' = IF o = "A" THEN phase ELSE "rebuild"
    /\ err' = NoError
    /\ UNCHANGED <<calls, clean, composerVars, shapeVars, deviceVars, signatureVars>>

Customizable ==
    /\ phase \in {"build", "custom"}
    /\ calls < MaxCalls

Customized(r) ==
    /\ IsComposer(r.st.meth) =>
            Len(r.st.meth.names) <= Cardinality(OwnerIds)
    /\ owner' = [owner EXCEPT !["A"] = r.st]
    /\ err' = r.err
    /\ clean' = (clean /\ r.err = NoError)
    /\ phase' = "custom"
    /\ calls' = calls + 1
    /\ UNCHANGED <<start, composerVars, shapeVars, deviceVars, signatureVars>>

ModifyBehavior(func, specifiers, modif_id) ==
    /\ Customizable
    /\ (specifiers # <<>> /\ specifiers[1] = "remove") <=> func = None
    /\ Customized(modify_behavior(owner["A"], func, specifiers, modif_id,
                                  FALSE))

Customize(func, specifiers, modif_id) ==
    /\ Customizable
    /\ Customized(customize(owner["A"], func, specifiers, modif_id))

CopyCustomBehaviors ==
    /\ phase # "copied"
    /\ LET r == copy_custom_behaviors(owner["B"], owner["A"])
       IN /\ owner' = [owner EXCEPT !["B"] = r.st]
          /\ err' = r.err
    /\ phase' = "copied"
    /\ UNCHANGED <<start, calls, clean, composerVars, shapeVars, deviceVars, signatureVars>>

Next ==
    \/ /\ phase # "copied"
       /\ \E o \in Objects, id \in BuildIds : Construct(o, id)
    \/ /\ Customizable
       /\ \E func \in Funcs \cup BadFuncs \cup {None},
             specifiers \in Specifiers, modif_id \in OwnerIds :
                ModifyBehavior(func, specifiers, modif_id)
    \/ /\ Customizable
       /\ \E func \in {"f", None},
             specifiers \in Specifiers, modif_id \in OwnerIds :
                Customize(func, specifiers, modif_id)
    \/ CopyCustomBehaviors

Spec == Init /\ [][Next]_vars

\* SpecOwner: object A alone, constructed and then customized; B stays as
\* it was created and nothing is copied.
NextOwner ==
    \/ \E id \in BuildIds : Construct("A", id)
    \/ /\ Customizable
       /\ \E func \in Funcs \cup BadFuncs \cup {None},
             specifiers \in Specifiers, modif_id \in OwnerIds :
                ModifyBehavior(func, specifiers, modif_id)
    \/ /\ Customizable
       /\ \E func \in {"f", None},
             specifiers \in Specifiers, modif_id \in OwnerIds :
                Customize(func, specifiers, modif_id)

SpecOwner == Init /\ [][NextOwner]_vars

-----------------------------------------------------------------------------
(* SpecShape: composers are created one after the other through            *)
(* MetaMethodComposer.__call__, receive methods and are called.            *)
(* SpecThreads: two callers run MetaMethodComposer.__call__ statement by   *)
(* statement.                                                              *)

baseVars == <<composerVars, err, ownerVars>>

\* The variables of the other specifications, which stay as they are.
InitBase ==
    /\ lists = [a \in Addrs |-> <<>>]
    /\ comp = [h \in Handles |-> Null]
    /\ ref = [h \in Handles |-> <<>>]
    /\ err = NoError
    /\ owner = [o \in Objects |-> NewObject("base")]
    /\ start = [o \in Objects |-> NewObject("base")]
    /\ phase = "build"
    /\ calls = 0
    /\ clean = TRUE

\* No class was generated yet and no composer created.
InitIdle == InitBase /\ InitShape /\ InitDevice /\ InitNormalizer

\* The inputs of MetaMethodComposer.__call__
Originals == {"inc", "tick"}
Alias == "driver"
Chains == {None, "val"}
SigVal == <<"driver", "val">>
SigLists == {NoSignatures, Signatures(<<>>), Signatures(<<SigVal>>)}

\* The ids of the methods added to a composer, in the order they are added.
StepIds == <<"a", "b", "c", "d">>

\* The key under which the class of a composer is kept.
KeyOf(o) == id_(o.signatures, o.chain_on)

NewComposer(func, chain_on, signatures) ==
    /\ Len(objs) < MaxObjs
    /\ LET r == MetaMethodComposer_call(sigs, classes, func, Alias, chain_on,
                                        "old", signatures)
       IN /\ sigs' = r.sigs
          /\ classes' = r.classes
          /\ objs' = Append(objs, r.obj)
          /\ out' = [NoOperation EXCEPT !.op = "new", !.p = Len(objs) + 1,
                                        !.func = func,
                                        !.chain_on = chain_on,
                                        !.signatures = signatures,
                                        !.hit = r.hit, !.err = r.err]
    /\ UNCHANGED <<frame, baseVars, deviceVars, signatureVars>>

\* composer.prepend / composer.append on one composer at a time
AddStep(p, how, m) ==
    /\ p \in 1..Len(objs)
    /\ Len(objs[p].names) < MaxLen
    /\ \A q \in 1..Len(objs) : q # p => Len(objs[q].names) = 1
    /\ LET c == [names |-> objs[p].names, methods |-> objs[p].methods]
           name == StepIds[Len(c.names)]
           r == IF how = "prepend" THEN prepend(c, name, m)
                ELSE append(c, name, m)
       IN /\ objs' = [objs EXCEPT ![p].names = r.c.names,
                                  ![p].methods = r.c.methods]
          /\ out' = [NoOperation EXCEPT !.op = how, !.p = p, !.func = m,
                                        !.err = r.err]
    /\ UNCHANGED <<sigs, classes, frame, baseVars, deviceVars, signatureVars>>

\* composer(val), or composer() when its class takes no argument
Invoke(p, v) ==
    /\ p \in 1..Len(objs)
    /\ LET cls == classes[objs[p].type]
           args == [k \in 1..Len(cls.args) |-> PyInt(v)]
           r == Composer_call(cls, objs[p].methods, 1, args,
                              [bound |-> FALSE, val |-> PyNone], <<>>)
       IN /\ cls.args = <<>> => v = 0
          /\ out' = [NoOperation EXCEPT !.op = "call", !.p = p,
                                        !.val = PyInt(v), !.ret = r.ret,
                                        !.trace = r.trace, !.err = r.err]
    /\ UNCHANGED <<sigs, classes, objs, frame, baseVars, deviceVars, signatureVars>>

NextShape ==
    \/ \E func \in Originals, chain_on \in Chains, signatures \in SigLists :
            NewComposer(func, chain_on, signatures)
    \/ \E p \in 1..MaxObjs, how \in {"prepend", "append"},
          m \in {"inc", "dbl"} : AddStep(p, how, m)
    \/ \E p \in 1..MaxObjs, v \in {0, 1} : Invoke(p, v)

SpecShape == InitIdle /\ [][NextShape]_vars

\* Lines 93-98: the caller computes the signatures and the key.
Enter(t, func, chain_on, signatures) ==
    /\ frame[t].pc = "idle"
    /\ Len(objs) + Cardinality({u \in Threads : frame[u].pc # "idle"})
            < MaxObjs
    /\ frame' = [frame EXCEPT ![t] =
                    [pc |-> "check", func |-> func, chain_on |-> chain_on,
                     signatures |-> signatures,
                     sigs |-> used_signatures(func, Alias, signatures),
                     subclass |-> 0]]
    /\ UNCHANGED <<sigs, classes, objs, out, baseVars, deviceVars, signatureVars>>

\* Line 99: if id_ not in MetaMethodComposer.sigs
Check(t) ==
    /\ frame[t].pc = "check"
    /\ frame' = [frame EXCEPT ![t].pc =
                    IF id_(frame[t].sigs, frame[t].chain_on) \in DOMAIN sigs
                    THEN "fetch" ELSE "build"]
    /\ UNCHANGED <<sigs, classes, objs, out, baseVars, deviceVars, signatureVars>>

\* Line 100: subclass = cls.create_composer(func.__name__, sigs, chain_on)
Build(t) ==
    /\ frame[t].pc = "build"
    /\ classes' = Append(classes, create_composer(frame[t].func,
                                                  frame[t].sigs,
                                                  frame[t].chain_on))
    /\ frame' = [frame EXCEPT ![t].pc = "insert",
                              ![t].subclass = Len(classes) + 1]
    /\ UNCHANGED <<sigs, objs, out, baseVars, deviceVars, signatureVars>>

\* Line 101: MetaMethodComposer.sigs[id_] = subclass
Insert(t) ==
    /\ frame[t].pc = "insert"
    /\ LET key == id_(frame[t].sigs, frame[t].chain_on)
       IN sigs' = IF key \in DOMAIN sigs
                  THEN [sigs EXCEPT ![key] = frame[t].subclass]
                  ELSE sigs @@ (key :> frame[t].subclass)
    /\ frame' = [frame EXCEPT ![t].pc = "fetch"]
    /\ UNCHANGED <<classes, objs, out, baseVars, deviceVars, signatureVars>>

\* Lines 103-107: custom_type = MetaMethodComposer.sigs[id_] and the
\* creation of the composer
Fetch(t) ==
    /\ frame[t].pc = "fetch"
    /\ LET custom_type == sigs[id_(frame[t].sigs, frame[t].chain_on)]
       IN objs' = Append(objs, new_composer(custom_type, frame[t].func,
                                            Alias, frame[t].chain_on, "old",
                                            frame[t].sigs))
    /\ out' = [NoOperation EXCEPT !.op = "new", !.p = Len(objs) + 1,
                                  !.func = frame[t].func,
                                  !.chain_on = frame[t].chain_on,
                                  !.signatures = frame[t].signatures,
                                  !.hit = frame[t].subclass = 0]
    /\ frame' = [frame EXCEPT ![t] = Idle]
    /\ UNCHANGED <<sigs, classes, baseVars, deviceVars, signatureVars>>

NextThreads ==
    \/ \E t \in Threads, func \in Originals, chain_on \in Chains,
          signatures \in SigLists : Enter(t, func, chain_on, signatures)
    \/ \E t \in Threads : Check(t)
    \/ \E t \in Threads : Build(t)
    \/ \E t \in Threads : Insert(t)
    \/ \E t \in Threads : Fetch(t)

SpecThreads == InitIdle /\ [][NextThreads]_vars

-----------------------------------------------------------------------------
(* SpecSignature: normalize_signature applied to the signatures of two     *)
(* functions with the same alias.                                          *)

\* Most parameters of a function.
MaxParams == 2

ParamNames == {"self", "driver", "val"}
Kinds == <<Positional, VarPositional, VarKeyword>>
Rank(kind) == CHOOSE k \in 1..3 : Kinds[k] = kind

\* The signatures Python accepts: no name twice, the positional parameters
\* first, then at most one *args, then at most one **kwargs.
ParamLists ==
    UNION {[1..n -> [name : ParamNames,
                     kind : {Positional, VarPositional, VarKeyword}]] :
                n \in 0..MaxParams}
WellFormed(sig) ==
    \A j, k \in 1..Len(sig) :
        j < k =>
            /\ sig[j].name # sig[k].name
            /\ Rank(sig[j].kind) <= Rank(sig[k].kind)
            /\ sig[j].kind = sig[k].kind => sig[j].kind = Positional
Sigs == {sig \in ParamLists : WellFormed(sig)}
Aliases == {None, "", "driver"}

InitSignature ==
    /\ InitBase
    /\ InitShape
    /\ InitDevice
    /\ \E one \in Sigs, two \in Sigs, alias \in Aliases :
            given = [sigs |-> <<one, two>>, alias |-> alias]
    /\ normalized = <<>>

Normalize ==
    /\ normalized = <<>>
    /\ normalized' = <<normalize_signature(given.sigs[1], given.alias),
                       normalize_signature(given.sigs[2], given.alias)>>
    /\ UNCHANGED <<given, deviceVars, shapeVars, baseVars>>

NextSignature == Normalize

SpecSignature == InitSignature /\ [][NextSignature]_vars

-----------------------------------------------------------------------------
(* SpecUnit: the functions of unit.py called in any order, in a process    *)
(* where pint could be imported and in one where it could not.             *)

InitImported ==
    /\ InitBase
    /\ InitShape
    /\ InitChannel
    /\ InitNormalizer
    /\ UNIT_REGISTRY = NoRegistry
    /\ UNIT_RETURN = TRUE
    /\ UNIT_SUPPORT \in BOOLEAN
    /\ made = 0
    /\ unit_out = NoCall

SetUnitRegistry(unit_registry, return_quantity) ==
    /\ LET r == set_unit_registry(UNIT_REGISTRY, UNIT_RETURN,
                                  unit_registry, return_quantity)
       IN /\ UNIT_REGISTRY' = r.UNIT_REGISTRY
          /\ UNIT_RETURN' = r.UNIT_RETURN
          /\ unit_out' = [op |-> "set_unit_registry",
                          unit_registry |-> unit_registry,
                          return_quantity |-> return_quantity,
                          ret |-> NoRegistry, err |-> r.err]
    /\ UNCHANGED <<UNIT_SUPPORT, made, channelVars, shapeVars, baseVars,
                   signatureVars>>

GetUnitRegistry ==
    /\ LET r == get_unit_registry(UNIT_REGISTRY, UNIT_SUPPORT, made)
       IN /\ r.made <= MaxRegistries
          /\ UNIT_REGISTRY' = r.UNIT_REGISTRY
          /\ made' = r.made
          /\ unit_out' = [NoCall EXCEPT !.op = "get_unit_registry",
                                        !.ret = r.ret, !.err = r.err]
    /\ UNCHANGED <<UNIT_RETURN, UNIT_SUPPORT, channelVars, shapeVars,
                   baseVars, signatureVars>>

ToQuantity ==
    /\ LET r == to_quantity(UNIT_REGISTRY, UNIT_SUPPORT, made)
       IN /\ r.made <= MaxRegistries
          /\ UNIT_REGISTRY' = r.UNIT_REGISTRY
          /\ made' = r.made
          /\ unit_out' = [NoCall EXCEPT !.op = "to_quantity",
                                        !.ret = r.ret, !.err = r.err]
    /\ UNCHANGED <<UNIT_RETURN, UNIT_SUPPORT, channelVars, shapeVars,
                   baseVars, signatureVars>>

NextUnit ==
    \/ \E unit_registry \in Given \cup {NoRegistry},
          return_quantity \in BOOLEAN :
            SetUnitRegistry(unit_registry, return_quantity)
    \/ GetUnitRegistry
    \/ ToQuantity

SpecUnit == InitImported /\ [][NextUnit]_vars

-----------------------------------------------------------------------------
(* SpecChannel: the descriptors read on the class and on its instances;    *)
(* what check_options answers is chosen at every access.                   *)

InitInstances ==
    InitBase /\ InitShape /\ InitUnit /\ InitChannel /\ InitNormalizer

DescriptorGet(instance, name, test) ==
    /\ LET r == ChannelDescriptor_get(channel_container_instances,
                                      containers, instance, name, test)
       IN /\ channel_container_instances' = r.instances
          /\ containers' = r.containers
          /\ channel_out' = [instance |-> instance, name |-> name,
                             ret |-> r.ret, err |-> r.err]
    /\ UNCHANGED <<containerVars, unitVars, shapeVars, baseVars,
                   signatureVars>>

NextChannel ==
    \E instance \in Instances \cup {NoInstance}, name \in Descriptors,
       test \in BOOLEAN :
        DescriptorGet(instance, name, test)

SpecChannel == InitInstances /\ [][NextChannel]_vars

-----------------------------------------------------------------------------
(* SpecContainer: a container built from one of the aliases dicts is asked *)
(* for channels, by id or by alias, while the list of the available        *)
(* channels changes from one lookup to the next.                           *)

InitLookups ==
    /\ InitBase /\ InitShape /\ InitUnit /\ InitDescriptors /\ InitNormalizer
    /\ \E aliases \in AliasDicts : cc = ChannelContainer_init(aliases)
    /\ item_out = NoLookup

GetItem(key, chs) ==
    /\ LET r == ChannelContainer_getitem(cc, key, chs)
       IN /\ cc' = r.cc
          /\ item_out' = [key |-> key, chs |-> chs, ret |-> r.ret,
                          err |-> r.err]
    /\ UNCHANGED <<channel_container_instances, containers, channel_out,
                   unitVars, shapeVars, baseVars, signatureVars>>

NextContainer ==
    \E key \in ChannelKeys, chs \in SUBSET ChannelIds : GetItem(key, chs)

SpecContainer == InitLookups /\ [][NextContainer]_vars

-----------------------------------------------------------------------------
(* Properties of the MethodComposer, checked under SpecComposer            *)

Names(h) == lists[comp[h].names]
Methods(h) == lists[comp[h].methods]

\* C1: after every sequence of prepend, append, add_before and add_after
\* calls, the ids of a composer and, in parallel, its methods (the order of
\* execution) are those of the reference ordered list, in which prepend
\* inserts at the first position, append at the end, add_before at the
\* position of the anchor and add_after right after it.
C1_MatchesReference ==
    \A h \in Handles :
        Live(h) =>
            /\ Names(h) = [k \in 1..Len(ref[h]) |-> ref[h][k][1]]
            /\ Methods(h) = [k \in 1..Len(ref[h]) |-> ref[h][k][2]]

C1_Witness ==
    /\ Live(1)
    /\ Names(1) = <<"a", "old", "b">>
    /\ Methods(1)[1] # Methods(1)[3]
    /\ err = NoError

\* The call leaves the lists of the composer behind h as they are.
Untouched(h, r) == Mutate(lists, comp, h, r.c) = lists

C3_UniqueIds ==
    \A h \in Handles :
        Live(h) =>
            \A i, j \in 1..Len(Names(h)) :
                Names(h)[i] = Names(h)[j] => i = j

C3_Witness ==
    /\ Live(1) /\ Live(2)
    /\ Len(Names(1)) = 3
    /\ Len(Names(2)) = 3
    /\ Names(1) # Names(2)
    /\ err = DuplicateIds

-----------------------------------------------------------------------------
(* Properties of modify_behavior and copy_custom_behaviors, checked under  *)
(* Spec                                                                    *)

A == owner["A"]
B == owner["B"]

\* The method of object o is not the no-op base method, so that the
\* validation hook leaves every directive as it was requested.
HookKeeps(o) ==
    \/ start[o].meth = Plain("base")
    \/ IsComposer(start[o].meth) /\ In("base", start[o].meth.methods)

\* C5: when every customization call made on A returned normally and B
\* was constructed as A was, copy_custom_behaviors returns normally and
\* leaves B with the method of A: the same ids in the same order with
\* the same functions.
C5_RoundTrip ==
    ( /\ phase = "copied"
      /\ clean
      /\ start["B"] = start["A"]
      /\ HookKeeps("A") )
        => (err = NoError /\ B.meth = A.meth)

\* The replay of a single add_before / add_after customization of A whose
\* anchor the constructor of B did not add: A holds the customization and
\* its anchor, B held neither when copy_custom_behaviors was called.
TheItem == A.customs.items[1]
Degraded ==
    /\ phase = "copied"
    /\ A.customs.kind = "dict" /\ Len(A.customs.items) = 1
    /\ TheItem.spec[1] \in {"add_after", "add_before"}
    /\ IsComposer(A.meth)
    /\ In(TheItem.key, A.meth.names) /\ In(TheItem.spec[2], A.meth.names)
    /\ IsComposer(start["B"].meth)
    /\ ~In(TheItem.key, start["B"].meth.names)
    /\ ~In(TheItem.spec[2], start["B"].meth.names)
    /\ HookKeeps("A") /\ HookKeeps("B")

\* The positions, in the composer of A, of the ids that B has too and that
\* lie away from the anchor: before it for add_after, after it for
\* add_before.
Candidates ==
    LET names == A.meth.names
        pos == PyIndex(names, TheItem.spec[2]) + 1
    IN {j \in 1..Len(names) :
            /\ In(names[j], start["B"].meth.names)
            /\ IF TheItem.spec[1] = "add_after" THEN j < pos ELSE j > pos}

Nearest ==
    IF TheItem.spec[1] = "add_after"
    THEN CHOOSE j \in Candidates : \A i \in Candidates : i <= j
    ELSE CHOOSE j \in Candidates : \A i \in Candidates : j <= i

\* B's ids once `id` is put right after / right before `near`
PutAfter(names, near, id) ==
    LET p == CHOOSE k \in 1..Len(names) : names[k] = near
    IN SubSeq(names, 1, p) \o <<id>> \o SubSeq(names, p + 1, Len(names))
PutBefore(names, near, id) ==
    LET p == CHOOSE k \in 1..Len(names) : names[k] = near
    IN SubSeq(names, 1, p - 1) \o <<id>> \o SubSeq(names, p, Len(names))

\* C6: when the anchor of a replayed add_after / add_before is not in the
\* target, the customization is inserted relative to the nearest id, going
\* away from the anchor in the composer of the source, that the target has
\* too: right after it for add_after, right before it for add_before.
\* (For the source [x, y, w, z], w added after y, and the target [x, z],
\* w lands next to x.)
C6_DegradedReplay ==
    (Degraded /\ Candidates # {}) =>
        /\ err = NoError
        /\ B.meth.names =
            IF TheItem.spec[1] = "add_after"
            THEN PutAfter(start["B"].meth.names, A.meth.names[Nearest],
                          TheItem.key)
            ELSE PutBefore(start["B"].meth.names, A.meth.names[Nearest],
                           TheItem.key)

\* C7: when the anchor of a replayed directive is not in the target and
\* the search finds no id that the target has too, the customization is
\* prepended if the directive is add_after and appended if it is
\* add_before.
C7_Fallback ==
    (Degraded /\ Candidates = {}) =>
        /\ err = NoError
        /\ B.meth.names =
            IF TheItem.spec[1] = "add_after"
            THEN <<TheItem.key>> \o start["B"].meth.names
            ELSE start["B"].meth.names \o <<TheItem.key>>

\* C8: copy_custom_behaviors never fails with the not in list error,
\* whatever customizations of A were remembered through modify_behavior
\* and however B was constructed.
C8_NoMissingAnchorError ==
    phase = "copied" => err # NotInList

\* C9: in every state of A, customize.customize without a decorated function
\* fails with the missing function error (RuntimeError) for every
\* directive except remove, and does not fail with it for remove.
C9_MissingFunction ==
    phase \in {"build", "custom"} =>
        \A specifiers \in Specifiers, modif_id \in OwnerIds :
            (customize(A, None, specifiers, modif_id).err = RuntimeError)
                <=> ~(specifiers # <<>> /\ specifiers[1] = "remove")

\* C10: in every state of A, a modify_behavior call that the validation hook
\* accepts and whose specifiers are empty, as given or as rewritten by the
\* hook, returns normally and leaves as the method the plain function
\* given, whatever the method was before, a composer included; a method
\* that is a plain function becomes a composer only through a call whose
\* specifiers are not empty after the hook.
C10_ReplacementIsPlain ==
    phase \in {"build", "custom"} =>
        \A func \in Funcs, specifiers \in Specifiers,
           modif_id \in OwnerIds, internal \in BOOLEAN :
            LET r == modify_behavior(A, func, specifiers, modif_id, internal)
                a == analyse_function(A, func, specifiers)
                replacement ==
                    /\ specifiers = <<>> \/ specifiers[1] # "remove"
                    /\ a.err = NoError
                    /\ a.specifiers = <<>>
            IN /\ replacement =>
                    (r.err = NoError /\ r.st.meth = Plain(func))
               /\ (~IsComposer(A.meth) /\ IsComposer(r.st.meth)) =>
                    ~replacement

\* a composer was discarded by a replacement
C10_Witness ==
    /\ IsComposer(start["A"].meth)
    /\ calls = 2
    /\ err = NoError
    /\ A.meth = Plain("g")
    /\ A.customs = Function("g")

\* C11 as claimed: once the method of A is a composer, it is a composer in
\* every later state, whatever calls follow.
C11_Original ==
    [][IsComposer(owner["A"].meth) => IsComposer(owner'["A"].meth)]_vars

\* C11 as amended: once the method of A is a composer it stays one through
\* every later call, except that a whole replacement (a call without
\* specifiers) that returns normally turns it back into the plain function
\* given, which is then what the customizations of A remember, under the
\* id "old".
C11_OneWayButReplacement ==
    [][(IsComposer(owner["A"].meth) /\ ~IsComposer(owner'["A"].meth)) =>
            /\ err' = NoError
            /\ owner'["A"].meth.func \in Funcs
            /\ owner'["A"].customs = Function(owner'["A"].meth.func)
            /\ owner'["A"].old_id = "old"]_vars

\* the method of A was promoted by one call and kept by the next
C11_Witness ==
    /\ ~IsComposer(start["A"].meth)
    /\ IsComposer(A.meth)
    /\ Len(A.meth.names) = 3
    /\ calls = 2
    /\ clean

\* The directives that add a method under the id of the call.
Insertions ==
    {<<"prepend">>, <<"append">>}
    \cup {<<kind, anchor>> : kind \in {"add_before", "add_after"},
                             anchor \in OwnerIds}

\* C12: in every state of A, a modify_behavior call that is not internal
\* and returns normally leaves the function given remembered together with
\* the specifiers given: as the customization itself when the specifiers
\* are empty, and under the id of the call for prepend, append, add_before
\* and add_after, also when the validation hook simplified the specifiers.
C12_IntentRecorded ==
    phase \in {"build", "custom"} =>
        \A func \in Funcs, specifiers \in Insertions \cup {<<>>},
           modif_id \in OwnerIds :
            LET r == modify_behavior(A, func, specifiers, modif_id, FALSE)
            IN r.err = NoError =>
                IF specifiers = <<>> THEN r.st.customs = Function(func)
                ELSE /\ r.st.customs.kind = "dict"
                     /\ HasKey(r.st.customs.items, modif_id)
                     /\ Get(r.st.customs.items, modif_id)
                            = Item(modif_id, func, specifiers)

\* C13: in every state of A, a remove call that is not internal and names
\* a method of the composer that the customizations of A remember returns
\* normally and forgets that customization and no other; copying the
\* customizations to an object constructed as A was then gives a method
\* without the removed one.
C13_RemoveForgets ==
    phase \in {"build", "custom"} =>
        \A anchor \in OwnerIds, modif_id \in OwnerIds :
            ( /\ IsComposer(A.meth) /\ In(anchor, A.meth.names)
              /\ A.customs.kind = "dict" /\ HasKey(A.customs.items, anchor) )
            =>
                LET r == modify_behavior(A, None, <<"remove", anchor>>,
                                         modif_id, FALSE)
                    b == copy_custom_behaviors(start["A"], r.st)
                IN /\ r.err = NoError
                   /\ r.st.customs = Dict(Del(A.customs.items, anchor))
                   /\ (IsComposer(b.st.meth)
                       /\ ~In(anchor, start["A"].meth.names))
                        => ~In(anchor, b.st.meth.names)

\* C14: in every state of A, a replace call that is not internal and names
\* a method of the composer that the customizations of A remember returns
\* normally and leaves that customization under its id, at its place in
\* the order and with the specifiers it was remembered with, and changes
\* only its function to the one given; every other customization is left
\* as it was and none is added under the id of the call.
C14_ReplaceKeepsEntry ==
    phase \in {"build", "custom"} =>
        \A func \in Funcs, anchor \in OwnerIds, modif_id \in OwnerIds :
            ( /\ IsComposer(A.meth) /\ In(anchor, A.meth.names)
              /\ A.customs.kind = "dict" /\ HasKey(A.customs.items, anchor) )
            =>
                LET r == modify_behavior(A, func, <<"replace", anchor>>,
                                         modif_id, FALSE)
                    pos == PyIndex(Keys(A.customs.items), anchor) + 1
                IN /\ r.err = NoError
                   /\ r.st.customs =
                        Dict([A.customs.items EXCEPT
                                ![pos] = Item(anchor, func, @.spec)])

\* the customization w, prepended with another function, was replaced
C14_Witness ==
    /\ calls = 2
    /\ clean
    /\ start["A"].meth = Plain("base")
    /\ A.meth = Composer([names |-> <<"w", "old">>,
                          methods |-> <<"g", "base">>])
    /\ A.customs = Dict(<<Item("w", "g", <<"prepend">>)>>)

\* The replay of a single add_before / add_after customization of A onto
\* an object B whose method is still a plain method.
OntoPlain ==
    /\ phase = "copied"
    /\ A.customs.kind = "dict" /\ Len(A.customs.items) = 1
    /\ TheItem.spec[1] \in {"add_after", "add_before"}
    /\ TheItem.func \in Funcs
    /\ ~IsComposer(start["B"].meth)

\* C20: when the method of the target is not a composer, a replayed
\* add_before is applied as a prepend and a replayed add_after as an
\* append, whatever anchor was remembered: the target ends as the prepend /
\* append call leaves it: for a customization whose id is not the id
\* "old" of the original method, and unless the method of the target is
\* the no-op base method (which the function then replaces), with the
\* customization put before / after the original method.
C20_DowngradedOntoPlain ==
    OntoPlain =>
        LET before == TheItem.spec[1] = "add_before"
            direct == modify_behavior(start["B"], TheItem.func,
                                      IF before THEN <<"prepend">>
                                      ELSE <<"append">>,
                                      TheItem.key, FALSE)
        IN /\ err = direct.err
           /\ B = direct.st
           /\ (start["B"].meth = Plain("base") /\ TheItem.key # "old") =>
                /\ err = NoError
                /\ B.customs = Dict(<<Item(TheItem.key, TheItem.func,
                                           IF before THEN <<"prepend">>
                                           ELSE <<"append">>)>>)
                /\ B.meth =
                    IF before
                    THEN Composer([names |-> <<TheItem.key, "old">>,
                                   methods |-> <<TheItem.func, "base">>])
                    ELSE Composer([names |-> <<"old", TheItem.key>>,
                                   methods |-> <<"base", TheItem.func>>])

\* w, added in A after x, a method that B never had, was appended to B
C20_Witness ==
    /\ OntoPlain
    /\ TheItem = Item("w", "f", <<"add_after", "x">>)
    /\ start["B"].meth = Plain("base")
    /\ B.meth = Composer([names |-> <<"old", "w">>,
                          methods |-> <<"base", "f">>])

\* C25: in every state in which the customization of A is a single
\* function, the one that replaced its method, a prepend, append, add_before or add_after call that is not
\* internal and returns normally leaves as customizations that function
\* under the id "old" with (prepend,), followed by the function of the call
\* under its id with its specifiers; and copying customizations of that
\* form to an object constructed without a method of its own, as A was,
\* returns normally and leaves it with the method of A.
C25_DemotedReplays ==
    /\ ( /\ phase \in {"build", "custom"}
         /\ A.customs.kind = "func"
         /\ A.meth = Plain(A.customs.func) ) =>
        \A func \in Funcs, specifiers \in Insertions, modif_id \in OwnerIds :
            LET r == modify_behavior(A, func, specifiers, modif_id, FALSE)
            IN r.err = NoError =>
                r.st.customs =
                    Dict(<<Item("old", A.customs.func, <<"prepend">>),
                           Item(modif_id, func, specifiers)>>)
    /\ ( /\ phase = "copied"
         /\ clean
         /\ ~IsComposer(start["A"].meth)
         /\ start["B"] = start["A"]
         /\ IsComposer(A.meth)
         /\ A.customs.kind = "dict"
         /\ Len(A.customs.items) = 2
         /\ A.customs.items[1].key = "old"
         /\ A.customs.items[1].spec = <<"prepend">>
         /\ A.customs.items[2].spec \in Insertions )
        => (err = NoError /\ B.meth = A.meth)

\* C26: in every state in which the method of A is a plain function, a
\* modify_behavior call whose specifiers are not empty after the
\* validation hook applies them to the composer made of that function
\* alone, under the id remembered by the last whole replacement of the
\* method or under "old" when there was none: when the composer method
\* returns normally the composer it leaves becomes the method of A, and
\* when it raises the call raises the same error and the method of A
\* stays the plain function.
C26_Promoted ==
    (phase \in {"build", "custom"} /\ ~IsComposer(A.meth)) =>
        \A func \in Funcs \cup {None}, specifiers \in Specifiers,
           modif_id \in OwnerIds, internal \in BOOLEAN :
            LET removal == specifiers # <<>> /\ specifiers[1] = "remove"
                a == analyse_function(A, func, specifiers)
                composed ==
                    /\ specifiers # <<>>
                    /\ removal <=> func = None
                    /\ removal \/ (a.err = NoError /\ a.specifiers # <<>>)
                promoted ==
                    MethodComposer(A.meth.func,
                                   IF A.old_id = None THEN "old"
                                   ELSE A.old_id)
                u == update_composer(promoted, specifiers, modif_id, func)
                r == modify_behavior(A, func, specifiers, modif_id, internal)
            IN composed =>
                IF u.err = NoError
                THEN r.st.meth = Composer(u.c)
                ELSE r.err = u.err /\ r.st.meth = A.meth

\* the function that replaced the no-op method under the id w was promoted
\* to a composer under that id
C26_Witness ==
    /\ calls = 2
    /\ clean
    /\ start["A"].meth = Plain("noop")
    /\ A.old_id = "w"
    /\ A.meth = Composer([names |-> <<"w", "x">>,
                          methods |-> <<"f", "g">>])

\* C27: in every state of A, a modify_behavior call made with internal
\* true leaves the customizations of A as they were, whatever its
\* specifiers and whether it returns normally or raises (the call is made
\* with a function the hook accepts or with one it refuses, and with none
\* when the directive is remove); an object whose
\* method was only modified by its constructor remembers nothing, and
\* copying its customizations onto another object returns normally and
\* leaves that object's method as it was.
C27_InternalUnrecorded ==
    /\ \A func \in {"f"} \cup BadFuncs \cup {None},
          specifiers \in Specifiers, modif_id \in OwnerIds :
            ((specifiers # <<>> /\ specifiers[1] = "remove") <=> func = None)
                => modify_behavior(A, func, specifiers, modif_id,
                                   TRUE).st.customs = A.customs
    /\ start["A"].customs = Absent
    /\ calls = 0 =>
            LET r == copy_custom_behaviors(B, A)
            IN  r.err = NoError /\ r.st.meth = B.meth

\* A, whose constructor added the method x through an internal call, has
\* not been customized and remembers nothing
C27_Witness ==
    /\ calls = 0
    /\ A.meth = Composer([names |-> <<"old", "x">>,
                          methods |-> <<"base", "m">>])
    /\ A.customs = Absent
    /\ ~IsComposer(B.meth)

\* C30: in every state of A, a modify_behavior call that raises because
\* the validation hook refuses the function, because the id is already in
\* the composer or because the anchor is not in it leaves the method of A,
\* its customizations and the id remembered for its original method as
\* they were.
C30_FailureAtomic ==
    phase \in {"build", "custom"} =>
        \A func \in Funcs \cup BadFuncs, specifiers \in Specifiers,
           modif_id \in OwnerIds, internal \in BOOLEAN :
            LET r == modify_behavior(A, func, specifiers, modif_id, internal)
            IN r.err \in {SignatureMismatch, DuplicateIds, NotInList} =>
                    r.st = A

\* C31: whenever the customizations of an object are an OrderedDict and its
\* method is a composer, every key of the OrderedDict is the id of a method
\* of the composer.
C31_KeysArePresent ==
    \A o \in Objects :
        (owner[o].customs.kind = "dict" /\ IsComposer(owner[o].meth)) =>
            \A k \in 1..Len(owner[o].customs.items) :
                In(owner[o].customs.items[k].key, owner[o].meth.names)

\* The directives an OrderedDict of customizations may hold.
Insertion(spec) ==
    \/ spec \in {<<"prepend">>, <<"append">>}
    \/ /\ Len(spec) = 2
       /\ spec[1] \in {"add_before", "add_after"}

\* C32: every directive stored in the OrderedDict of customizations of an
\* object is a prepend, an append, an add_before or an add_after; a replace
\* or a remove is never stored (so that copy_custom_behaviors, which
\* replays the stored directives, never replays one).
C32_OnlyInsertionsStored ==
    \A o \in Objects :
        \A k \in 1..Len(owner[o].customs.items) :
            Insertion(owner[o].customs.items[k].spec)

\* A, constructed with the method x, replaced x by f: the entry stored for
\* x is an add_after of the step before it
C32_Witness ==
    /\ calls = 1
    /\ clean
    /\ start["A"].meth = Composer([names |-> <<"old", "x">>,
                                   methods |-> <<"base", "m">>])
    /\ A.meth = Composer([names |-> <<"old", "x">>,
                          methods |-> <<"base", "f">>])
    /\ A.customs = Dict(<<Item("x", "f", <<"add_after", "old">>)>>)

-----------------------------------------------------------------------------
(* Properties of the generated classes and of MetaMethodComposer.sigs,     *)
(* checked under SpecShape and SpecThreads                                 *)

\* The composer of the last operation, its class and its methods.
Called == objs[out.p]
CalledClass == classes[Called.type]

\* Every method of the composer takes the arguments of the class.
Accepts(cls, methods) ==
    \A k \in 1..Len(methods) : Len(signature(methods[k])) - 1 = Len(cls.args)

\* The value of the methods applied one after the other to v, the first
\* method of the list first.
RECURSIVE Composition(_, _)
Composition(methods, v) ==
    IF methods = <<>> THEN v
    ELSE returns(methods[Len(methods)],
                 <<Composition(SubSeq(methods, 1, Len(methods) - 1), v)>>)

\* C15: a call of a composer whose class chains on its argument calls every
\* method once, in the order of the list of methods, the first with the
\* value given and each other one with the value the one before it
\* returned, and returns the value the last one returned: the composition
\* of the methods in the order of the list (three methods adding 1 turn 0
\* into 3).
C15_ChainedCall ==
    ( /\ out.op = "call"
      /\ CalledClass.chain # "" /\ chain_position(CalledClass) > 0
      /\ Accepts(CalledClass, Called.methods) )
    =>
        /\ out.err = NoError
        /\ out.ret = Composition(Called.methods, out.val)
        /\ out.trace =
            [k \in 1..Len(Called.methods) |->
                <<Called.methods[k],
                  <<Composition(SubSeq(Called.methods, 1, k - 1), out.val)>> >>]

C15_Witness ==
    /\ out.op = "call"
    /\ CalledClass.chain = "val"
    /\ Called.methods = <<"inc", "inc", "inc">>
    /\ out.val = PyInt(0)
    /\ out.ret = PyInt(3)

\* C16: a call of a composer whose class chains on nothing calls every
\* method once, in the order of the list of methods, each with the
\* arguments of the call, and returns None, whatever the methods return.
C16_UnchainedCall ==
    ( /\ out.op = "call"
      /\ CalledClass.chain = ""
      /\ Accepts(CalledClass, Called.methods) )
    =>
        /\ out.err = NoError
        /\ out.ret = PyNone
        /\ out.trace =
            [k \in 1..Len(Called.methods) |->
                <<Called.methods[k],
                  [i \in 1..Len(CalledClass.args) |-> out.val]>>]

C16_Witness ==
    /\ out.op = "call"
    /\ CalledClass.chain = ""
    /\ Called.methods = <<"dbl", "inc", "inc">>
    /\ out.val = PyInt(1)
    /\ out.ret = PyNone
    /\ Len(out.trace) = 3

\* C17: whatever composers were created one after the other, two composers
\* created with equal signatures and equal chain_on have the same class,
\* which is the one MetaMethodComposer.sigs holds for that key; and no
\* class was generated for a key that had one: there are as many classes
\* as keys, each kept under one key.
C17_SameKeySameShape ==
    /\ \A p, q \in 1..Len(objs) :
            KeyOf(objs[p]) = KeyOf(objs[q]) => objs[p].type = objs[q].type
    /\ \A p \in 1..Len(objs) :
            /\ KeyOf(objs[p]) \in DOMAIN sigs
            /\ sigs[KeyOf(objs[p])] = objs[p].type
    /\ Len(classes) = Cardinality(DOMAIN sigs)
    /\ \A k1, k2 \in DOMAIN sigs : sigs[k1] = sigs[k2] => k1 = k2

\* a second composer, of another function, found the class of the first
C17_Witness ==
    /\ Len(objs) = 2
    /\ out.op = "new" /\ out.hit
    /\ objs[1].methods # objs[2].methods
    /\ KeyOf(objs[1]) = KeyOf(objs[2])
    /\ objs[1].type = objs[2].type
    /\ Len(classes) = 1

\* C18: an entry of MetaMethodComposer.sigs, once made, is never removed
\* nor replaced, also when two callers interleave the statements of
\* MetaMethodComposer.__call__ for the same key, and the composers they
\* create for equal keys have the same class.
C18_Monotonic ==
    [][ /\ \A k \in DOMAIN sigs : k \in DOMAIN sigs' /\ sigs'[k] = sigs[k]
        /\ \A p, q \in 1..Len(objs') :
                KeyOf(objs'[p]) = KeyOf(objs'[q])
                    => objs'[p].type = objs'[q].type ]_vars

ConfigurationError == "ConfigurationError"

\* The last operation created a composer without signatures: with None or
\* with an empty list.
WithoutSignatures ==
    /\ out.op = "new"
    /\ ~out.signatures.given \/ out.signatures.list = <<>>

\* C19 as claimed: the creation of a composer without signatures fails
\* with a configuration error, generates no class and leaves
\* MetaMethodComposer.sigs as it was.
C19_Original ==
    WithoutSignatures =>
        /\ out.err = ConfigurationError
        /\ Len(objs) < out.p

\* C19 as amended: the creation of a composer without signatures returns
\* normally: the signatures are the single normalized signature of the
\* function given, the class is the one MetaMethodComposer.sigs holds for
\* them and chain_on, generated by this call unless the key had one, and
\* its __call__ takes the parameters of the function after the first.
C19_SignatureOfFunction ==
    WithoutSignatures =>
        LET sg == <<normalize_signature(signature(out.func), Alias)>>
            key == id_(sg, out.chain_on)
        IN /\ out.err = NoError
           /\ Len(objs) >= out.p
           /\ Called.signatures = sg
           /\ key \in DOMAIN sigs
           /\ Called.type = sigs[key]
           /\ CalledClass.args = Tail(sg[1])
           /\ ~out.hit => (Called.type = Len(classes)
                           /\ CalledClass.name = out.func)

\* a class was generated for the signature of tick, given no signatures
C19_Witness ==
    /\ WithoutSignatures
    /\ out.func = "tick"
    /\ ~out.hit
    /\ Called.signatures = << <<"driver">> >>
    /\ CalledClass.args = <<>>
    /\ out.p = 2

-----------------------------------------------------------------------------
(* Properties of sequences of MethodComposer calls, checked under          *)
(* SpecComposer                                                            *)

\* The composer d is the composer c with the method m inserted under the id
\* name at position pos (counted from 1), every other id and method kept,
\* in the same order.
InsertedAt(c, d, name, m, pos) ==
    /\ Len(d.names) = Len(c.names) + 1
    /\ Len(d.methods) = Len(c.methods) + 1
    /\ d.names[pos] = name
    /\ d.methods[pos] = m
    /\ \A k \in 1..Len(c.names) :
        LET j == IF k < pos THEN k ELSE k + 1
        IN d.names[j] = c.names[k] /\ d.methods[j] = c.methods[k]

\* C21: in every state, for every id of a composer: remove of that id
\* returns normally, and on the composer it leaves, prepend, append,
\* add_before and add_after of a method under the same id return normally
\* and put the method first, last, at the place of the anchor and right
\* after the anchor, wherever the removed method was.
C21_IdReusable ==
    \A h \in Handles :
        Live(h) =>
            \A name \in Ids, method \in Steps :
                In(name, Names(h)) =>
                    LET gone == remove(Deref(lists, comp, h), name)
                        c == gone.c
                    IN /\ gone.err = NoError
                       /\ ~In(name, c.names)
                       /\ LET r == prepend(c, name, method)
                          IN /\ r.err = NoError
                             /\ InsertedAt(c, r.c, name, method, 1)
                       /\ LET r == append(c, name, method)
                          IN /\ r.err = NoError
                             /\ InsertedAt(c, r.c, name, method,
                                           Len(c.names) + 1)
                       /\ \A anchor \in Ids :
                            In(anchor, c.names) =>
                                LET at == PyIndex(c.names, anchor) + 1
                                    r == add_before(c, anchor, name, method)
                                    q == add_after(c, anchor, name, method)
                                IN /\ r.err = NoError
                                   /\ InsertedAt(c, r.c, name, method, at)
                                   /\ q.err = NoError
                                   /\ InsertedAt(c, q.c, name, method,
                                                 at + 1)

\* a composer of three methods whose middle one can be removed and put back
\* at either end
C21_Witness ==
    /\ Live(1)
    /\ Names(1) = <<"old", "a", "b">>
    /\ Methods(1)[1] # Methods(1)[2]
    /\ err = NoError

\* The calls that change a composer, with their arguments.
Directives ==
    [op : {"prepend", "append", "add_before", "add_after", "replace"},
     anchor : Ids, name : Ids, method : Steps]
    \cup [op : {"remove"}, anchor : Ids, name : {"old"}, method : {"f"}]
    \cup [op : {"reset"}, anchor : {"old"}, name : {"old"}, method : {"f"}]

\* The call d made on the composer value c.
Apply(c, d) ==
    CASE d.op = "prepend" -> prepend(c, d.name, d.method)
      [] d.op = "append" -> append(c, d.name, d.method)
      [] d.op = "add_before" -> add_before(c, d.anchor, d.name, d.method)
      [] d.op = "add_after" -> add_after(c, d.anchor, d.name, d.method)
      [] d.op = "replace" -> replace(c, d.anchor, d.method)
      [] d.op = "remove" -> remove(c, d.anchor)
      [] d.op = "reset" -> reset(c)

\* The list objects and the bindings after the call d on the composer
\* behind h, and the outcome of the call.
Applied(ls, cp, h, d) ==
    LET r == Apply(Deref(ls, cp, h), d)
    IN IF d.op = "reset"
       THEN [lists |-> Rebind(ls, cp, h, r.c).lists,
             comp |-> Rebind(ls, cp, h, r.c).comp, err |-> r.err]
       ELSE [lists |-> Mutate(ls, cp, h, r.c), comp |-> cp, err |-> r.err]

\* C22: whenever two composers hold the same ids and the same methods in
\* the same order, the same call made on the one and then on the other has
\* the same outcome for both (both return normally or both raise the same
\* error) and leaves them again with the same ids and the same methods in
\* the same order; by induction the same holds of every sequence of calls.
C22_Deterministic ==
    (/\ Live(1) /\ Live(2)
     /\ Deref(lists, comp, 1) = Deref(lists, comp, 2)) =>
        \A d \in Directives :
            LET one == Applied(lists, comp, 1, d)
                two == Applied(one.lists, one.comp, 2, d)
            IN /\ one.err = two.err
               /\ Deref(two.lists, two.comp, 1) = Deref(two.lists, two.comp, 2)
               /\ Deref(two.lists, two.comp, 1) = Deref(one.lists, one.comp, 1)

\* two composers made equal by the same calls, the last of which failed
C22_Witness ==
    /\ Live(1) /\ Live(2)
    /\ Names(1) = <<"a", "old", "b">>
    /\ Names(2) = Names(1)
    /\ Methods(2) = Methods(1)
    /\ Methods(1)[1] # Methods(1)[2]
    /\ err = DuplicateIds

\* C24: in every state, replace called with an id that is in the composer
\* returns normally, leaves the list of ids as it was (same ids, same
\* order, same length) and, in the list of methods, changes the method at
\* the position of that id to the one given and no other; the lists of
\* the other composer are left as they were.
C24_ReplaceInPlace ==
    \A h \in Handles :
        Live(h) =>
            \A name \in Ids, method \in Steps :
                In(name, Names(h)) =>
                    LET r == replace(Deref(lists, comp, h), name, method)
                        after == Mutate(lists, comp, h, r.c)
                        at == CHOOSE k \in 1..Len(Names(h)) :
                                    Names(h)[k] = name
                    IN /\ r.err = NoError
                       /\ after[comp[h].names] = Names(h)
                       /\ Len(after[comp[h].methods]) = Len(Methods(h))
                       /\ after[comp[h].methods][at] = method
                       /\ \A k \in 1..Len(Methods(h)) :
                            k # at =>
                                after[comp[h].methods][k] = Methods(h)[k]
                       /\ \A a \in Addrs :
                            a \notin {comp[h].names, comp[h].methods} =>
                                after[a] = lists[a]

\* a composer of three methods, the first of which was replaced
C24_Witness ==
    /\ Live(1) /\ Live(2)
    /\ Names(1) = <<"old", "a", "b">>
    /\ Names(2) = <<"old">>
    /\ Methods(1)[1] # Methods(2)[1]
    /\ err = NoError

\* The two lists of the composer behind h, before and after a step.
Sequences(h) == <<lists[comp[h].names], lists[comp[h].methods]>>
SequencesAfter(h) == <<lists'[comp'[h].names], lists'[comp'[h].methods]>>

\* C35: a composer that clone creates starts with the lists of ids and of
\* methods of the composer it was cloned from, which the clone leaves as
\* they were; afterwards no call made on one composer (prepend, append,
\* add_before, add_after, replace, remove, reset or another clone) changes
\* the lists of the other: the lists of a composer change only in the
\* steps that act on it.
C35_CloneIndependent ==
    [][/\ \A g \in Handles :
            (~Live(g) /\ comp'[g] # Null) =>
                \E h \in Handles \ {g} :
                    /\ Live(h)
                    /\ SequencesAfter(g) = Sequences(h)
                    /\ SequencesAfter(h) = Sequences(h)
       /\ \A g \in Handles :
            (Live(g) /\ ref'[g] = ref[g]) =>
                SequencesAfter(g) = Sequences(g)]_vars

\* The original and its clone, made while the original held old alone,
\* have since received different methods at different places
C35_Witness ==
    /\ Live(1) /\ Live(2)
    /\ Names(1) = <<"old", "a">>
    /\ Names(2) = <<"b", "old">>
    /\ Methods(1)[1] = Methods(2)[2]

-----------------------------------------------------------------------------
(* Properties of the unit registry, checked under SpecUnit                 *)

\* C23: once UNIT_REGISTRY holds a registry, given to set_unit_registry or
\* created by get_unit_registry, no call changes UNIT_REGISTRY or
\* UNIT_RETURN, every set_unit_registry call raises ValueError and every
\* get_unit_registry call returns that registry.
C23_SetOnce ==
    [][Truthy(UNIT_REGISTRY) =>
            /\ UNIT_REGISTRY' = UNIT_REGISTRY
            /\ UNIT_RETURN' = UNIT_RETURN
            /\ unit_out'.op = "set_unit_registry" =>
                    unit_out'.err = ValueError
            /\ unit_out'.op = "get_unit_registry" =>
                    /\ unit_out'.err = NoError
                    /\ unit_out'.ret = UNIT_REGISTRY]_vars

\* a registry created by default, and a refused attempt to install another
\* one with the other flag
C23_Witness ==
    /\ UNIT_REGISTRY = Default(1)
    /\ unit_out.op = "set_unit_registry"
    /\ unit_out.err = ValueError
    /\ unit_out.unit_registry \in Given
    /\ unit_out.return_quantity # UNIT_RETURN

-----------------------------------------------------------------------------
(* Properties of normalize_signature, checked under SpecSignature          *)

\* The alias was given and is used.
Provided == given.alias # None /\ given.alias # ""

\* The parameters after the first one.
Rest(sig) == IF sig = <<>> THEN <<>> ELSE Tail(sig)

\* C28 as claimed: when an alias is given, the first element of the
\* normalized signature of a function that has parameters is the alias,
\* whatever the first parameter is called; and the normalized signatures
\* of two functions are equal exactly when their parameters after the
\* first are the same, in name, kind and order.
C28_Original ==
    normalized # <<>> =>
        /\ \A i \in 1..2 :
            (Provided /\ given.sigs[i] # <<>>) =>
                normalized[i][1] = given.alias
        /\ (normalized[1] = normalized[2]) <=>
                /\ (given.sigs[1] = <<>>) <=> (given.sigs[2] = <<>>)
                /\ Rest(given.sigs[1]) = Rest(given.sigs[2])

\* The parameter is one that the alias stands for.
Aliased(p) == Provided /\ p.name = "self"

\* The parameters p and q are normalized to the same string.
Alike(p, q) ==
    \/ Aliased(p) /\ Aliased(q)
    \/ ~Aliased(p) /\ ~Aliased(q) /\ p = q
    \/ Aliased(p) /\ ~Aliased(q) /\ q = Param(given.alias, Positional)
    \/ Aliased(q) /\ ~Aliased(p) /\ p = Param(given.alias, Positional)

\* C28 as amended: the normalized signature has one element for each
\* parameter, in order: the alias for a parameter called self, at whatever
\* position and of whatever kind, when an alias that is not empty is
\* given, and otherwise the name of the parameter, after * for *args and
\* after ** for **kwargs; a first parameter that is not called self keeps
\* its name.  The normalized signatures of two functions are equal exactly
\* when the functions have as many parameters and, position by position,
\* the two parameters are both replaced by the alias, or are the same in
\* name and kind, or one is replaced by the alias and the other is an
\* ordinary parameter called as the alias.
C28_NamedSelf ==
    normalized # <<>> =>
        /\ \A i \in 1..2 :
            /\ Len(normalized[i]) = Len(given.sigs[i])
            /\ \A k \in 1..Len(given.sigs[i]) :
                LET p == given.sigs[i][k]
                    t == normalized[i][k]
                IN /\ Aliased(p) => t = given.alias
                   /\ (~Aliased(p) /\ p.kind = Positional) => t = p.name
                   /\ (~Aliased(p) /\ p.kind = VarPositional) =>
                            t = "*" \o p.name
                   /\ (~Aliased(p) /\ p.kind = VarKeyword) =>
                            t = "**" \o p.name
        /\ (normalized[1] = normalized[2]) <=>
                /\ Len(given.sigs[1]) = Len(given.sigs[2])
                /\ \A k \in 1..Len(given.sigs[1]) :
                        Alike(given.sigs[1][k], given.sigs[2][k])

\* f(self, val) and g(val, **self) normalized with the alias driver
C28_Witness ==
    /\ given.alias = "driver"
    /\ given.sigs[1] = <<Param("self", Positional), Param("val", Positional)>>
    /\ given.sigs[2] = <<Param("val", Positional), Param("self", VarKeyword)>>
    /\ normalized = <<<<"driver", "val">>, <<"val", "driver">>>>

-----------------------------------------------------------------------------
(* Properties of the channel descriptor, checked under SpecChannel         *)

\* C29: at every access of a descriptor on an instance: a container that
\* the instance holds is never replaced; an access that returns normally
\* returns the container the instance holds under the name of the
\* descriptor, which is the one it held before when it held one and a
\* container created by this access otherwise; an access that raises
\* raises AttributeError, on a descriptor with options for which the
\* instance holds no container, and stores and creates nothing, so that
\* the next access checks the options again; no two containers are ever
\* created for the same instance and name.
C29_OneContainer ==
    [][LET i == channel_out'.instance
           n == channel_out'.name
           before == channel_container_instances
           after == channel_container_instances'
       IN /\ \A j \in Instances, m \in Descriptors :
                (before[j][m] # NoContainer \/ <<j, m>> # <<i, n>>) =>
                    after[j][m] = before[j][m]
          /\ i # NoInstance =>
                IF channel_out'.err = NoError
                THEN /\ after[i][n] # NoContainer
                     /\ channel_out'.ret = TheContainer(n, after[i][n])
                     /\ IF before[i][n] # NoContainer
                        THEN containers' = containers
                        ELSE /\ containers' =
                                    Append(containers, NewContainer(i, n))
                             /\ after[i][n] = Len(containers')
                ELSE /\ channel_out'.err = AttributeError
                     /\ options(n) # ""
                     /\ before[i][n] = NoContainer
                     /\ after = before
                     /\ containers' = containers
          /\ i = NoInstance =>
                /\ channel_out'.ret = TheClass(n)
                /\ after = before /\ containers' = containers
          /\ \A j, k \in 1..Len(containers') :
                containers'[j] = containers'[k] => j = k]_vars

\* the container of instance 1 for aux, the first one created, is returned
\* again after every other container was created
C29_Witness ==
    /\ Len(containers) = 4
    /\ containers[1] = NewContainer(1, "aux")
    /\ channel_out.instance = 1
    /\ channel_out.name = "aux"
    /\ channel_out.err = NoError
    /\ channel_out.ret = TheContainer("aux", 1)

-----------------------------------------------------------------------------
(* Properties of ChannelContainer, checked under SpecContainer             *)

\* key is the id c, or one of the aliases the dict lists for c
Listed(aliases, key, c) ==
    \E i \in 1..Len(aliases) :
        aliases[i].k = c /\ In(key, aliases[i].v.names)
NamedBy(aliases, key, c) == key = c \/ Listed(aliases, key, c)

\* No alias is listed for two channel ids, and no alias is the id of
\* another channel.
Proper(aliases) ==
    \A key \in AliasNames, c \in ChannelIds :
        Listed(aliases, key, c) =>
            /\ \A d \in ChannelIds \ {c} : ~Listed(aliases, key, d)
            /\ key \in ChannelIds => key = c

\* What a lookup by the id c or by one of its aliases does: the channel
\* cached for c stays the one it was; when c is cached or available the
\* lookup returns the channel of c, which is the cached one, and else it
\* raises KeyError and leaves the container as it was.
LookupOf(c) ==
    /\ Cached(cc, c) => cc'.channels[c] = cc.channels[c]
    /\ NamedBy(cc.given, item_out'.key, c) =>
            IF Cached(cc, c) \/ c \in item_out'.chs
            THEN /\ item_out'.err = NoError
                 /\ item_out'.ret.id = c
                 /\ item_out'.ret = cc'.channels[c]
            ELSE /\ item_out'.err = KeyError
                 /\ cc' = cc

\* As many channels were created as ids are cached.
OnePerId ==
    cc'.count = Cardinality({c \in ChannelIds : Cached(cc', c)})

\* C33 as stated: whatever the aliases dict, every lookup by an id or by
\* any alias listed for it returns the one channel of that id, the alias
\* being resolved before the cache and the list of the available channels
\* are consulted.
C33_Original ==
    [][OnePerId /\ \A c \in ChannelIds : LookupOf(c)]_vars

\* C33 (amended): when no alias is listed for two channel ids and no
\* alias is itself the id of another channel, a container holds one
\* channel per id, and every lookup by the id or by any alias listed for it
\* returns the channel the first successful lookup created; the alias is
\* resolved to the id before the cache and the list of the available
\* channels are consulted.
C33_OneChannelPerId ==
    [][Proper(cc.given) => (OnePerId /\ \A c \in ChannelIds : LookupOf(c))]_vars

\* The channel c1, created by a lookup by its id, was returned by a lookup
\* by its alias a while no channel was available
C33_Witness ==
    /\ cc.given = <<[k |-> "c1", v |-> Tuple(<<"a", "b">>)]>>
    /\ cc.channels["c1"] = Channel("c1", 2)
    /\ cc.channels["c2"] = Channel("c2", 1)
    /\ item_out = [key |-> "b", chs |-> {}, ret |-> Channel("c1", 2),
                   err |-> NoError]

\* The id a key stands for: the id its alias maps to, or the key itself
Resolved(key) == IF cc.aliases[key] # NoAlias THEN cc.aliases[key] ELSE key

\* C34: a lookup of an id that is neither cached nor among the available
\* channels raises KeyError and leaves the container as it was (no channel
\* is created, none is cached); a lookup of an id that is cached returns
\* the cached channel whatever the available channels are at that time,
\* and leaves the container as it was.
C34_MissRaises ==
    \A key \in ChannelKeys, chs \in SUBSET ChannelIds :
        LET r == ChannelContainer_getitem(cc, key, chs)
        IN /\ (~Cached(cc, Resolved(key)) /\ Resolved(key) \notin chs) =>
                    /\ r.err = KeyError
                    /\ r.ret = NoChannel
                    /\ r.cc = cc
           /\ Cached(cc, Resolved(key)) =>
                    /\ r.err = NoError
                    /\ r.ret = cc.channels[Resolved(key)]
                    /\ r.cc = cc

\* c1 was cached while it was available; the lookup of c2, which was not
\* available, raised KeyError
C34_Witness ==
    /\ cc.given = <<>>
    /\ cc.count = 1
    /\ cc.channels = [id \in ChannelIds |->
                        IF id = "c1" THEN Channel("c1", 1) ELSE NoChannel]
    /\ item_out = [key |-> "c2", chs |-> {"c1"}, ret |-> NoChannel,
                   err |-> KeyError]

====
